---- MODULE Spec2Model ----
(***************************************************************************)
(* Speech-metrics analysis pipeline of CoachAI26/ai.                        *)
(*                                                                         *)
(* Texts are sequences of one-character strings; offsets are Python's      *)
(* 0-based offsets.  The replies of the external capabilities (the chat    *)
(* completion calls) are modelled by their shape after json.loads and by   *)
(* the exception the call may raise.                                       *)
(***************************************************************************)
EXTENDS Integers, Sequences, FiniteSets, TLC

VARIABLES
    f_pc,           \* filler detection: "start", "given", "detected", "removed"
    f_text,         \* the transcript text
    f_reply,        \* the reply of the filler-detection call
    filler_words,   \* the spans detect_filler_words_with_gpt returned
    cleaned_text    \* the result of remove_filler_words

fillerVars == <<f_pc, f_text, f_reply, filler_words, cleaned_text>>

VARIABLES
    g_pc,            \* a call of one GPT-backed helper: "start", "done"
    openai_client,   \* config._openai_client: "none" or "client"
    g_title,         \* the title handed to the relevance check
    g_user_text,     \* the transcript handed to the relevance check
    g_ext,           \* what the external capability did during the call
    g_result         \* what the helper returned, or that it raised

gptVars == <<g_pc, openai_client, g_title, g_user_text, g_ext, g_result>>

VARIABLES
    p_pc,     \* POST /transcribe: the await the handler is suspended at, or "done"
    p_in,     \* the request: the kind of upload and the title
    p_tmp,    \* whether the temporary audio file /tmp/{filename} exists
    p_ext,    \* what each external capability did for this request
    p_loc,    \* the local variables of the handler
    p_resp    \* the HTTP response: status, the stage that ended it, the body

pipeVars == <<p_pc, p_in, p_tmp, p_ext, p_loc, p_resp>>

VARIABLES
    c_pc,       \* concurrent requests: where each handler is suspended, or "done"
    c_req,      \* each request's upload: its file name, and whether its audio is usable
    tmp_files,  \* /tmp: for each file name, the request whose audio the file holds (0: no file)
    c_heard,    \* the request whose audio each transcription call is reading
    c_resp      \* each request's response: status, and whose audio was transcribed

concVars == <<c_pc, c_req, tmp_files, c_heard, c_resp>>

VARIABLES
    m_pc,   \* a metric function called on its own: "start", "done"
    m_in,   \* the function called and its arguments
    m_out   \* what it returned

metricVars == <<m_pc, m_in, m_out>>

vars == <<fillerVars, gptVars, pipeVars, concVars, metricVars>>

\* Largest number of tokens of a transcript text.
MaxTokens == 4

\* The pieces a transcript text is put together from: two hesitation
\* sounds (one with a capital and a repeated last letter), a space and a
\* comma.  Two sounds side by side form a word that is no hesitation sound.
Tokens == {<<"u", "m">>, <<"U", "m", "m">>, <<" ">>, <<",">>}

TokenSeqs == UNION {[1..n -> Tokens] : n \in 0..MaxTokens}

RECURSIVE Concat(_)
Concat(ts) == IF ts = <<>> THEN <<>> ELSE Head(ts) \o Concat(Tail(ts))

Texts == {Concat(ts) : ts \in TokenSeqs}

(***************************************************************************)
(* Python string primitives                                                 *)
(***************************************************************************)

\* str.lower() / str.upper() on the letters that occur in the model.
LowerChar(c) ==
    CASE c = "U" -> "u" [] c = "M" -> "m" [] c = "X" -> "x" [] c = "Y" -> "y"
      [] c = "E" -> "e" [] c = "S" -> "s" [] c = "N" -> "n" [] c = "O" -> "o"
      [] OTHER -> c

UpperChar(c) ==
    CASE c = "u" -> "U" [] c = "m" -> "M" [] c = "x" -> "X" [] c = "y" -> "Y"
      [] c = "e" -> "E" [] c = "s" -> "S" [] c = "n" -> "N" [] c = "o" -> "O"
      [] OTHER -> c

Lower(s) == [i \in 1..Len(s) |-> LowerChar(s[i])]

Upper(s) == [i \in 1..Len(s) |-> UpperChar(s[i])]

\* \s of the re module, on the characters of the model.
IsSpace(c) == c \in {" ", "\t", "\n"}

\* \w of the re module.
IsWordChar(c) == ~IsSpace(c) /\ c \notin {",", ".", ";", ":", "!", "?"}

\* The punctuation class [,.;:!?] of remove_filler_words.
IsPunct(c) == c \in {",", ".", ";", ":", "!", "?"}

\* A slice index as Python clamps it for a sequence of length n.
ClampIdx(i, n) ==
    IF i < 0 THEN (IF i + n < 0 THEN 0 ELSE i + n)
    ELSE IF i > n THEN n ELSE i

\* s[a:b] with Python's semantics (0-based, negative indices from the end).
PySlice(s, a, b) ==
    LET lo == ClampIdx(a, Len(s))
        hi == ClampIdx(b, Len(s))
    IN  IF lo >= hi THEN <<>> ELSE SubSeq(s, lo + 1, hi)

\* s[a:]
PyFrom(s, a) ==
    LET lo == ClampIdx(a, Len(s))
    IN  IF lo >= Len(s) THEN <<>> ELSE SubSeq(s, lo + 1, Len(s))

RECURSIVE LStrip(_)
LStrip(s) == IF s # <<>> /\ IsSpace(Head(s)) THEN LStrip(Tail(s)) ELSE s

RECURSIVE RStrip(_)
RStrip(s) ==
    IF s # <<>> /\ IsSpace(s[Len(s)]) THEN RStrip(SubSeq(s, 1, Len(s) - 1)) ELSE s

\* str.strip()
Strip(s) == RStrip(LStrip(s))

\* a in b  (substring containment)
IsIn(a, b) ==
    \E i \in 0..(Len(b) - Len(a)) : SubSeq(b, i + 1, i + Len(a)) = a

\* str.startswith
StartsWith(s, p) == Len(s) >= Len(p) /\ SubSeq(s, 1, Len(p)) = p

(***************************************************************************)
(* _regex_hesitation_fillers: \b(um+|uh+|er+|erm+|ah+|hmm+)\b, IGNORECASE   *)
(***************************************************************************)

\* The alternatives in the pattern's order: a literal prefix, then one or
\* more repetitions of the last letter.
HesitationAlts ==
    << [pre |-> <<"u">>, rep |-> "m"],
       [pre |-> <<"u">>, rep |-> "h"],
       [pre |-> <<"e">>, rep |-> "r"],
       [pre |-> <<"e", "r">>, rep |-> "m"],
       [pre |-> <<"a">>, rep |-> "h"],
       [pre |-> <<"h", "m">>, rep |-> "m"] >>

\* \b at offset i of t: exactly one side of the offset is a word character.
WordBoundary(t, i) ==
    (i > 0 /\ IsWordChar(t[i])) # (i < Len(t) /\ IsWordChar(t[i + 1]))

\* Number of consecutive occurrences of letter c (any case) from offset p.
RECURSIVE RunLen(_, _, _)
RunLen(t, p, c) ==
    IF p < Len(t) /\ LowerChar(t[p + 1]) = c THEN 1 + RunLen(t, p + 1, c) ELSE 0

\* Length matched by one alternative at offset i, 0 when it does not match:
\* the repetition is greedy and backs off until the closing \b holds.
AltMatchLen(t, i, alt) ==
    LET p == i + Len(alt.pre)
    IN  IF p <= Len(t) /\ Lower(SubSeq(t, i + 1, p)) = alt.pre
        THEN LET ks == {k \in 1..RunLen(t, p, alt.rep) : WordBoundary(t, p + k)}
             IN  IF ks = {} THEN 0
                 ELSE Len(alt.pre) + (CHOOSE k \in ks : \A j \in ks : j <= k)
        ELSE 0

\* Length of the match that starts at offset i (0: none): the opening \b,
\* then the first alternative that matches.
MatchLenAt(t, i) ==
    IF ~WordBoundary(t, i) THEN 0
    ELSE LET hits == {a \in 1..Len(HesitationAlts) : AltMatchLen(t, i, HesitationAlts[a]) > 0}
         IN  IF hits = {} THEN 0
             ELSE AltMatchLen(t, i, HesitationAlts[CHOOSE a \in hits : \A b \in hits : a <= b])

\* pattern.finditer(text) from offset i: leftmost matches, not overlapping.
RECURSIVE FindIter(_, _)
FindIter(t, i) ==
    IF i >= Len(t) THEN <<>>
    ELSE LET l == MatchLenAt(t, i)
         IN  IF l > 0
             THEN <<[word |-> SubSeq(t, i + 1, i + l), position |-> i, length |-> l]>>
                  \o FindIter(t, i + l)
             ELSE FindIter(t, i + 1)

\* A search that stops at the first match.
FirstMatchOnly(text) ==
    IF FindIter(text, 0) = <<>> THEN <<>> ELSE <<Head(FindIter(text, 0))>>

_regex_hesitation_fillers(text) == FindIter(text, 0)

(***************************************************************************)
(* detect_filler_words_with_gpt                                             *)
(***************************************************************************)

\* The words, positions and lengths an AI candidate may report for a text.
\* Positions and lengths are untrusted: they reach outside the text on both
\* sides.
CandWords == {<<"u", "m">>, <<"m">>}

CandPositions(t) == (-1)..Len(t)

CandLengths(t) == ((-1)..3) \cup {Len(t) + 1}

\* One entry of the list the reply holds.  kind "dict": an object with the
\* keys word and position; "nokeys": an object without them; "nodict": a
\* value that is no object.  lenKind "int": length is given; "missing": the
\* key is absent; "str": the value is a JSON string.
DictCands(t) ==
    [kind : {"dict"}, word : CandWords, position : CandPositions(t),
     lenKind : {"int"}, length : CandLengths(t)]
    \cup [kind : {"dict"}, word : CandWords, position : CandPositions(t),
          lenKind : {"missing"}, length : {0}]
    \cup [kind : {"dict"}, word : {<<"u", "m">>}, position : CandPositions(t),
          lenKind : {"str"}, length : {0}]

OtherCands ==
    [kind : {"nokeys", "nodict"}, word : {<<>>}, position : {0},
     lenKind : {"missing"}, length : {0}]

\* Candidates as a well-behaved capability reports them: a word and a
\* position inside the text.
InTextCands(t) ==
    [kind : {"dict"}, word : CandWords, position : 0..(Len(t) - 1),
     lenKind : {"missing"}, length : {0}]

CandLists(t) ==
    {<<>>} \cup {<<c>> : c \in DictCands(t) \cup OtherCands}
           \cup {<<c, d>> : c \in InTextCands(t), d \in InTextCands(t)}

\* Shapes of the reply whose list of candidates reaches the validation.
ListShapes ==
    {"json_list", "json_fillers", "json_filler_words", "json_other_list",
     "text_codeblock", "text_array"}

\* Shapes that leave filler_words empty without raising.
EmptyShapes == {"json_no_list", "text_plain"}

\* Shapes on which the body of the try block raises: get_openai_client
\* raises, the call raises, the content is None, the JSON value is a
\* scalar (it has no items()), the value under "fillers" is no list, the
\* bracketed text found by the last-resort search is no JSON.
RaisingShapes ==
    {"client_error", "call_error", "no_content", "json_scalar",
     "json_fillers_null", "text_bad_array"}

FillerReplies(t) ==
    [shape : {"json_fillers"}, cands : CandLists(t)]
    \cup [shape : ListShapes \ {"json_fillers"},
          cands : {<<>>} \cup {<<c>> : c \in InTextCands(t)}]
    \cup [shape : EmptyShapes \cup RaisingShapes, cands : {<<>>}]

\* No call was made yet.
NoReply == [shape |-> "none", cands |-> <<>>]

\* filler_words after the parsing of the reply (lines 117-148).
ParseFillerReply(reply) ==
    IF reply.shape \in RaisingShapes THEN [raised |-> TRUE, fillers |-> <<>>]
    ELSE IF reply.shape \in ListShapes THEN [raised |-> FALSE, fillers |-> reply.cands]
    ELSE [raised |-> FALSE, fillers |-> <<>>]

\* length = filler.get("length", len(word))
CandLength(c) == IF c.lenKind = "missing" THEN Len(c.word) ELSE c.length

\* The check of one candidate (lines 153-167): "skip", "keep" or "raise".
ValidateOne(text, c) ==
    IF c.kind # "dict" THEN "skip"
    ELSE IF ~(0 <= c.position /\ c.position < Len(text)) THEN "skip"
    ELSE IF c.lenKind = "str" THEN "raise"
    ELSE LET actual_word == Strip(PySlice(text, c.position, c.position + CandLength(c)))
         IN  IF IsIn(Lower(c.word), Lower(actual_word)) \/ IsIn(Lower(actual_word), Lower(c.word))
             THEN "keep" ELSE "skip"

RECURSIVE ValidatedFillers(_, _)
ValidatedFillers(text, cands) ==
    IF cands = <<>> THEN <<>>
    ELSE LET c == Head(cands)
         IN  IF ValidateOne(text, c) = "keep"
             THEN <<[word |-> c.word, position |-> c.position, length |-> CandLength(c)]>>
                  \o ValidatedFillers(text, Tail(cands))
             ELSE ValidatedFillers(text, Tail(cands))

ValidationRaises(text, cands) ==
    \E i \in 1..Len(cands) : ValidateOne(text, cands[i]) = "raise"

\* Lines 171-177: the regex spans whose (position, length) is not yet there.
RECURSIVE MergeRegex(_, _)
MergeRegex(validated, regex) ==
    IF regex = <<>> THEN validated
    ELSE LET f == Head(regex)
         IN  IF \E i \in 1..Len(validated) :
                    validated[i].position = f.position /\ validated[i].length = f.length
             THEN MergeRegex(validated, Tail(regex))
             ELSE MergeRegex(Append(validated, f), Tail(regex))

\* Insertion of x behind every element whose position is not larger: the
\* sort is stable, as Python's sorted is.
RECURSIVE InsertByPosition(_, _)
InsertByPosition(sorted, x) ==
    IF sorted = <<>> THEN <<x>>
    ELSE IF Head(sorted).position <= x.position
         THEN <<Head(sorted)>> \o InsertByPosition(Tail(sorted), x)
         ELSE <<x>> \o sorted

RECURSIVE SortByPosition(_)
SortByPosition(s) ==
    IF s = <<>> THEN <<>>
    ELSE InsertByPosition(SortByPosition(SubSeq(s, 1, Len(s) - 1)), s[Len(s)])

\* The scan with last_end never advanced: every span is kept.
RECURSIVE NonOverlapping_LastEndNotAdvanced(_, _)
NonOverlapping_LastEndNotAdvanced(s, last_end) ==
    IF s = <<>> THEN <<>>
    ELSE IF Head(s).position >= last_end
         THEN <<Head(s)>> \o NonOverlapping_LastEndNotAdvanced(Tail(s), last_end)
         ELSE NonOverlapping_LastEndNotAdvanced(Tail(s), last_end)

\* Lines 181-187: the greedy scan that keeps a span starting at or after
\* the end of the last span kept.
RECURSIVE NonOverlapping(_, _)
NonOverlapping(s, last_end) ==
    IF s = <<>> THEN <<>>
    ELSE IF Head(s).position >= last_end
         THEN <<Head(s)>> \o NonOverlapping(Tail(s), Head(s).position + Head(s).length)
         ELSE NonOverlapping(Tail(s), last_end)

\* The list detect_filler_words_with_gpt returns; the except clause turns
\* every exception of the try block into the empty list.
detect_filler_words_with_gpt(text, reply) ==
    LET parsed == ParseFillerReply(reply)
    IN  IF parsed.raised \/ ValidationRaises(text, parsed.fillers) THEN <<>>
        ELSE NonOverlapping(
                 SortByPosition(
                     MergeRegex(ValidatedFillers(text, parsed.fillers),
                                _regex_hesitation_fillers(text))),
                 -1)

(***************************************************************************)
(* remove_filler_words                                                      *)
(***************************************************************************)

\* Offset behind the run of whitespace that starts at offset i.
RECURSIVE SkipSpace(_, _)
SkipSpace(s, i) ==
    IF i < Len(s) /\ IsSpace(s[i + 1]) THEN SkipSpace(s, i + 1) ELSE i

\* re.sub(r'\s+', ' ', s), from offset i.
RECURSIVE CollapseSpace(_, _)
CollapseSpace(s, i) ==
    IF i >= Len(s) THEN <<>>
    ELSE IF IsSpace(s[i + 1]) THEN <<" ">> \o CollapseSpace(s, SkipSpace(s, i))
    ELSE <<s[i + 1]>> \o CollapseSpace(s, i + 1)

\* re.sub(r'\s+([,.;:!?])', r'\1', s), from offset i.
RECURSIVE SpaceBeforePunct(_, _)
SpaceBeforePunct(s, i) ==
    IF i >= Len(s) THEN <<>>
    ELSE LET j == SkipSpace(s, i)
         IN  IF j > i /\ j < Len(s) /\ IsPunct(s[j + 1])
             THEN <<s[j + 1]>> \o SpaceBeforePunct(s, j + 1)
             ELSE <<s[i + 1]>> \o SpaceBeforePunct(s, i + 1)

\* re.sub(r'([,.;:!?])\s+', r'\1 ', s), from offset i.
RECURSIVE SpaceAfterPunct(_, _)
SpaceAfterPunct(s, i) ==
    IF i >= Len(s) THEN <<>>
    ELSE IF IsPunct(s[i + 1]) /\ SkipSpace(s, i + 1) > i + 1
         THEN <<s[i + 1], " ">> \o SpaceAfterPunct(s, SkipSpace(s, i + 1))
         ELSE <<s[i + 1]>> \o SpaceAfterPunct(s, i + 1)

\* Lines 218-221: the clean-up that follows each deletion.
Normalize(s) ==
    Strip(SpaceAfterPunct(SpaceBeforePunct(CollapseSpace(s, 0), 0), 0))

\* Lines 213-216: result[:start] + result[end:]
DeleteSpan(result, filler) ==
    LET start == filler.position
        end == start + filler.length
    IN  PySlice(result, 0, start) \o PyFrom(result, end)

\* sorted(..., key=position, reverse=True): stable among equal positions.
RECURSIVE InsertByPositionDesc(_, _)
InsertByPositionDesc(sorted, x) ==
    IF sorted = <<>> THEN <<x>>
    ELSE IF Head(sorted).position >= x.position
         THEN <<Head(sorted)>> \o InsertByPositionDesc(Tail(sorted), x)
         ELSE <<x>> \o sorted

RECURSIVE SortByPositionDesc(_)
SortByPositionDesc(s) ==
    IF s = <<>> THEN <<>>
    ELSE InsertByPositionDesc(SortByPositionDesc(SubSeq(s, 1, Len(s) - 1)), s[Len(s)])

\* The loop of lines 212-221 over the spans still to be processed.
RECURSIVE RemoveLoop(_, _)
RemoveLoop(result, fillers) ==
    IF fillers = <<>> THEN result
    ELSE RemoveLoop(Normalize(DeleteSpan(result, Head(fillers))), Tail(fillers))

remove_filler_words(text, filler_positions) ==
    RemoveLoop(text, SortByPositionDesc(filler_positions))

(***************************************************************************)
(* config.get_openai_client and the helpers that consult the capability     *)
(***************************************************************************)

\* An optional value: None, or a value.
None == [isNone |-> TRUE, v |-> <<>>]

Some(x) == [isNone |-> FALSE, v |-> x]

\* How the construction of the client ends when it is attempted: "ok";
\* "proxies_ok": OpenAI(api_key) raises the TypeError about proxies and the
\* construction with an httpx client succeeds; "proxies_fail": that second
\* construction raises too; "error": OpenAI(api_key) raises anything else.
ConstructOutcomes == {"ok", "proxies_ok", "proxies_fail", "error"}

\* get_openai_client(): the handle is built on the first use only and kept
\* in the module-level _openai_client.
get_openai_client(client, construct) ==
    IF client # "none" THEN [raised |-> FALSE, client |-> client]
    ELSE IF construct \in {"ok", "proxies_ok"} THEN [raised |-> FALSE, client |-> "client"]
    ELSE [raised |-> TRUE, client |-> "none"]

\* The state of no helper call: the variables of the helper calls at rest.
GptIdle ==
    /\ g_pc = "idle"
    /\ openai_client = "none"
    /\ g_title = None
    /\ g_user_text = None
    /\ g_ext = [construct |-> "ok", call |-> "none", content |-> None]
    /\ g_result = [raised |-> FALSE, value |-> FALSE, consulted |-> FALSE]

\* The locals of a handler that has not computed anything yet.
NoLocals ==
    [text |-> <<>>, duration_seconds |-> 0, segments |-> None,
     filler_words |-> <<>>, cleaned_text |-> <<>>,
     wpm_data |-> [word_count |-> 0, duration_seconds |-> 0, wpm |-> 0],
     pause_data |-> [total_pauses |-> 0, total_hesitations |-> 0, pause_durations |-> <<>>,
                     average_pause_duration |-> 0, total_pause_time |-> 0,
                     hesitation_words |-> <<>>],
     fluency_data |-> [fluency_score |-> 0, pause_ratio |-> 0, hesitation_rate |-> 0],
     confidence_data |-> [confidence_score |-> 0, wpm_score |-> 0, filler_score |-> 0,
                          pause_score |-> 0, hesitation_score |-> 0,
                          overall_rating |-> "", recommendations |-> [isList |-> TRUE, items |-> <<>>]],
     off_topic |-> FALSE, improved_text |-> <<>>]

\* No external call was made yet.
NoCalls ==
    [transcription |-> [construct |-> "ok", call |-> "none", text |-> <<>>,
                        duration |-> None, segments |-> None, language |-> None],
     filler |-> NoReply,
     recs |-> [construct |-> "ok", shape |-> "none", value |-> [isList |-> TRUE, items |-> <<>>]],
     relevance |-> [construct |-> "ok", call |-> "none", content |-> None],
     improve |-> [construct |-> "ok", call |-> "none", content |-> None]]

NoResponse == [status |-> 0, stage |-> "", body |-> None]

\* Largest number of requests in flight together.
MaxRequests == 2

Requests == 1..MaxRequests

\* The file names of the uploads.
FileNames == {"a.wav", "b.wav"}

\* The state of no concurrent requests.
ConcIdle ==
    /\ c_pc = [i \in Requests |-> "idle"]
    /\ c_req = [i \in Requests |-> [filename |-> "a.wav", usable |-> TRUE]]
    /\ tmp_files = [f \in FileNames |-> 0]
    /\ c_heard = [i \in Requests |-> 0]
    /\ c_resp = [i \in Requests |-> [status |-> 0, heard |-> 0]]

\* No metric function is called on its own.
MetricsIdle == m_pc = "idle" /\ m_in = [fn |-> "none"] /\ m_out = [fn |-> "none"]

\* The state of no request.
PipeIdle ==
    /\ p_pc = "idle"
    /\ p_in = [file |-> "audio_type", title |-> None]
    /\ p_tmp = FALSE
    /\ p_ext = NoCalls
    /\ p_loc = NoLocals
    /\ p_resp = NoResponse

(***************************************************************************)
(* check_answer_relevance_to_title                                          *)
(***************************************************************************)

YES == <<"Y", "E", "S">>

\* What the classification call does: it raises ("error": network failure,
\* timeout), or it returns a message whose content is None or a string.
RelevanceContents ==
    {None, Some(<<>>), Some(<<" ">>), Some(YES), Some(<<"y", "e", "s">>),
     Some(<<" ", "Y", "e", "s", ".">>), Some(<<"Y", "E">>), Some(<<"N", "O">>),
     Some(<<"n", "o">>), Some(<<"N", "O", " ", "Y", "E", "S">>), Some(<<"?">>)}

RelevanceExts ==
    [construct : ConstructOutcomes, call : {"error"}, content : {None}]
    \cup [construct : ConstructOutcomes, call : {"ok"}, content : RelevanceContents]

\* (user_text or "")
OrEmpty(opt) == IF opt.isNone THEN <<>> ELSE opt.v

\* not title or not (user_text or "").strip()
SkipsRelevanceCheck(title, user_text) ==
    title.isNone \/ title.v = <<>> \/ Strip(OrEmpty(user_text)) = <<>>

\* raw = (content or "").strip().upper(); raw.startswith("YES")
ReplySaysYes(content) == StartsWith(Upper(Strip(OrEmpty(content))), YES)

\* The call as a whole: whether it raised, the boolean it returned, and
\* the client handle afterwards.  get_openai_client is called before the
\* try block (line 309); the except clause covers the call and the reading
\* of the reply only.
check_answer_relevance_to_title(title, user_text, client, ext) ==
    IF SkipsRelevanceCheck(title, user_text)
    THEN [raised |-> FALSE, value |-> TRUE, client |-> client, consulted |-> FALSE]
    ELSE LET got == get_openai_client(client, ext.construct)
         IN  IF got.raised
             THEN [raised |-> TRUE, value |-> FALSE, client |-> got.client, consulted |-> FALSE]
             ELSE IF ext.call = "error"
             THEN [raised |-> FALSE, value |-> TRUE, client |-> got.client, consulted |-> TRUE]
             ELSE [raised |-> FALSE, value |-> ReplySaysYes(ext.content),
                   client |-> got.client, consulted |-> TRUE]

RelevanceTitles == {None, Some(<<>>), Some(<<"T">>), Some(<<" ">>)}

RelevanceTexts == {None, Some(<<>>), Some(<<" ">>), Some(<<"u", "m">>), Some(<<" ", "m", " ">>)}

InitRelevance ==
    /\ PipeIdle
    /\ ConcIdle
    /\ MetricsIdle
    /\ f_pc = "idle" /\ f_text = <<>> /\ f_reply = NoReply
    /\ filler_words = <<>> /\ cleaned_text = <<>>
    /\ g_pc = "start"
    /\ openai_client \in {"none", "client"}
    /\ g_title \in RelevanceTitles
    /\ g_user_text \in RelevanceTexts
    /\ g_ext = [construct |-> "ok", call |-> "none", content |-> None]
    /\ g_result = [raised |-> FALSE, value |-> FALSE, consulted |-> FALSE]

RelevanceCall ==
    /\ g_pc = "start"
    /\ \E ext \in RelevanceExts :
          LET r == check_answer_relevance_to_title(g_title, g_user_text, openai_client, ext)
          IN  /\ g_ext' = ext
              /\ g_result' = [raised |-> r.raised, value |-> r.value, consulted |-> r.consulted]
              /\ openai_client' = r.client
    /\ g_pc' = "done"
    /\ UNCHANGED <<g_title, g_user_text, fillerVars, pipeVars, concVars, metricVars>>

NextRelevance == RelevanceCall

SpecRelevance == InitRelevance /\ [][NextRelevance]_vars

\* The capability was asked and answered with a reply from which neither
\* YES nor NO can be read (empty, blank, unclear).
UndeterminedReply ==
    /\ g_pc = "done" /\ g_result.consulted /\ g_ext.call = "ok"
    /\ ~StartsWith(Upper(Strip(OrEmpty(g_ext.content))), YES)
    /\ ~StartsWith(Upper(Strip(OrEmpty(g_ext.content))), <<"N", "O">>)

\* C7: a reply that is not prefixed with YES and from which nothing can be
\* determined (empty, unclear) is treated as relevant: the check returns True.
C7_UndeterminedReplyIsRelevant ==
    UndeterminedReply => (~g_result.raised /\ g_result.value = TRUE)

\* C8: the check fails open: when the client cannot be built or the call
\* raises it returns True without raising, and for an empty title or a
\* blank transcript it returns True without consulting the capability.
C8_FailsOpen ==
    g_pc = "done" =>
        /\ ~g_result.raised
        /\ SkipsRelevanceCheck(g_title, g_user_text)
               => (g_result.value = TRUE /\ ~g_result.consulted)
        /\ (~SkipsRelevanceCheck(g_title, g_user_text) /\ g_ext.call = "error")
               => g_result.value = TRUE

(***************************************************************************)
(* _generate_recommendations_with_gpt                                       *)
(***************************************************************************)

\* Longest list of recommendations in a reply.
MaxRecs == 2

\* A JSON value inside the list of recommendations: a string, or a value
\* of another type (a number, null, an object).
StrEntry(chars) == [t |-> "str", s |-> chars]

RecEntries ==
    {StrEntry(<<"a">>), StrEntry(<<" ", "a", " ">>), StrEntry(<<>>), StrEntry(<<" ">>),
     [t |-> "num", s |-> <<>>]}

\* The value under the key "recommendations": a list of entries, or a
\* value that is no list (a string, null).
RecValues ==
    [isList : {TRUE}, items : UNION {[1..n -> RecEntries] : n \in 0..MaxRecs}]
    \cup {[isList |-> FALSE, items |-> <<>>]}

\* "Keep practicing to improve your speech confidence!"
FallbackMessage ==
    << "K", "e", "e", "p", " ", "p", "r", "a", "c", "t",
       "i", "c", "i", "n", "g", " ", "t", "o", " ", "i",
       "m", "p", "r", "o", "v", "e", " ", "y", "o", "u",
       "r", " ", "s", "p", "e", "e", "c", "h", " ", "c",
       "o", "n", "f", "i", "d", "e", "n", "c", "e", "!" >>

FallbackRecommendations == [isList |-> TRUE, items |-> <<StrEntry(FallbackMessage)>>]

\* Shapes of the reply.  json_*: the content is JSON (an object with the key
\* "recommendations", an object without it, a list, a scalar); text_*: the
\* content is no JSON (it holds a code block with such an object, a code
\* block whose braces hold no JSON, or no code block).
RecShapes ==
    {"call_error", "no_content", "json_obj_recs", "json_obj_other", "json_list",
     "json_scalar", "text_codeblock_recs", "text_codeblock_other",
     "text_codeblock_bad", "text_plain"}

RecExts ==
    [construct : ConstructOutcomes, shape : {"json_obj_recs", "text_codeblock_recs"},
     value : RecValues]
    \cup [construct : ConstructOutcomes,
          shape : RecShapes \ {"json_obj_recs", "text_codeblock_recs"},
          value : {[isList |-> TRUE, items |-> <<>>]}]

\* Lines 236-239: the entries that are strings with a non-blank text, stripped.
RECURSIVE CleanRecommendations(_)
CleanRecommendations(items) ==
    IF items = <<>> THEN <<>>
    ELSE LET rec == Head(items)
         IN  IF rec.t = "str" /\ Len(Strip(rec.s)) > 0
             THEN <<StrEntry(Strip(rec.s))>> \o CleanRecommendations(Tail(items))
             ELSE CleanRecommendations(Tail(items))

\* The value returned for a reply (lines 228-250).
RecommendationsFromReply(shape, value) ==
    IF shape = "json_obj_recs" /\ value.isList
    THEN IF CleanRecommendations(value.items) # <<>>
         THEN [isList |-> TRUE, items |-> CleanRecommendations(value.items)]
         ELSE FallbackRecommendations
    ELSE IF shape = "text_codeblock_recs" THEN value
    ELSE FallbackRecommendations

\* The call as a whole; every exception of the try block (lines 209-255)
\* ends in the fallback list.
_generate_recommendations_with_gpt(client, ext) ==
    LET got == get_openai_client(client, ext.construct)
    IN  [raised |-> FALSE,
         client |-> got.client,
         value |-> IF got.raised \/ ext.shape \in {"call_error", "no_content"}
                   THEN FallbackRecommendations
                   ELSE RecommendationsFromReply(ext.shape, ext.value)]

InitRecommend ==
    /\ PipeIdle
    /\ ConcIdle
    /\ MetricsIdle
    /\ f_pc = "idle" /\ f_text = <<>> /\ f_reply = NoReply
    /\ filler_words = <<>> /\ cleaned_text = <<>>
    /\ g_pc = "start"
    /\ openai_client \in {"none", "client"}
    /\ g_title = None
    /\ g_user_text = None
    /\ g_ext = [construct |-> "ok", shape |-> "none", value |-> FallbackRecommendations]
    /\ g_result = [raised |-> FALSE, value |-> FallbackRecommendations]

RecommendCall ==
    /\ g_pc = "start"
    /\ \E ext \in RecExts :
          LET r == _generate_recommendations_with_gpt(openai_client, ext)
          IN  /\ g_ext' = ext
              /\ g_result' = [raised |-> r.raised, value |-> r.value]
              /\ openai_client' = r.client
    /\ g_pc' = "done"
    /\ UNCHANGED <<g_title, g_user_text, fillerVars, pipeVars, concVars, metricVars>>

NextRecommend == RecommendCall

SpecRecommend == InitRecommend /\ [][NextRecommend]_vars

\* A list fit for the response: a non-empty list of non-empty strings.
UsableRecommendations(value) ==
    /\ value.isList
    /\ value.items # <<>>
    /\ \A i \in 1..Len(value.items) : value.items[i].t = "str" /\ value.items[i].s # <<>>

\* C9: recommendation generation never raises and returns a non-empty list
\* of non-empty strings, whatever the capability replies.
C9_RecommendationsUsable ==
    g_pc = "done" => (~g_result.raised /\ UsableRecommendations(g_result.value))

(***************************************************************************)
(* Filler detection followed by removal, as the endpoint calls them         *)
(* (routes/transcription.py, lines 197-200).                                *)
(***************************************************************************)

InitFiller ==
    /\ GptIdle
    /\ PipeIdle
    /\ ConcIdle
    /\ MetricsIdle
    /\ f_pc = "start"
    /\ f_text \in Texts
    /\ f_reply = NoReply
    /\ filler_words = <<>>
    /\ cleaned_text = <<>>

\* filler_words = await detect_filler_words_with_gpt(text)
Detect ==
    /\ f_pc = "start"
    /\ \E r \in FillerReplies(f_text) :
          /\ f_reply' = r
          /\ filler_words' = detect_filler_words_with_gpt(f_text, r)
    /\ f_pc' = "detected"
    /\ UNCHANGED <<f_text, cleaned_text, gptVars, pipeVars, concVars, metricVars>>

\* cleaned_text = remove_filler_words(f_text, filler_words)
Remove ==
    /\ f_pc = "detected"
    /\ cleaned_text' = remove_filler_words(f_text, filler_words)
    /\ f_pc' = "removed"
    /\ UNCHANGED <<f_text, f_reply, filler_words, gptVars, pipeVars, concVars, metricVars>>

NextFiller == Detect \/ Remove

SpecFiller == InitFiller /\ [][NextFiller]_vars

(***************************************************************************)
(* remove_filler_words called with a span list of the caller's.             *)
(***************************************************************************)

\* Longest span list handed to remove_filler_words.
MaxSpans == 2

\* The span of token i of the text Concat(ts).
TokenSpan(ts, i) ==
    [word |-> ts[i], position |-> Len(Concat(SubSeq(ts, 1, i - 1))), length |-> Len(ts[i])]

\* Lists of spans that each designate one token of the text, in any order
\* and with repetitions.
SpanLists(ts) ==
    UNION {[1..n -> {TokenSpan(ts, i) : i \in 1..Len(ts)}] : n \in 0..MaxSpans}

InitRemove ==
    \E ts \in TokenSeqs :
        /\ GptIdle
        /\ PipeIdle
        /\ ConcIdle
        /\ MetricsIdle
        /\ f_pc = "given"
        /\ f_text = Concat(ts)
        /\ f_reply = NoReply
        /\ filler_words \in SpanLists(ts)
        /\ cleaned_text = <<>>

RemoveCall ==
    /\ f_pc = "given"
    /\ cleaned_text' = remove_filler_words(f_text, filler_words)
    /\ f_pc' = "removed"
    /\ UNCHANGED <<f_text, f_reply, filler_words, gptVars, pipeVars, concVars, metricVars>>

NextRemove == RemoveCall

SpecRemove == InitRemove /\ [][NextRemove]_vars

(***************************************************************************)
(* Claims about filler detection and removal                                *)
(***************************************************************************)

Detected == f_pc \in {"detected", "removed"}

\* Replies of a capability that is unavailable: the client cannot be
\* built or the call raises.
UnavailableShapes == {"client_error", "call_error"}

\* Replies that cannot be parsed into a candidate list.
UnparseableShapes ==
    {"no_content", "json_scalar", "json_fillers_null", "text_bad_array",
     "text_plain", "json_no_list"}

\* C1: when the AI capability is unavailable or its reply cannot be parsed
\* into a candidate list, detect_filler_words_with_gpt returns exactly the
\* spans of the deterministic hesitation-sound pass.
C1_FallbackIsRegexPass ==
    (Detected /\ f_reply.shape \in UnavailableShapes \cup UnparseableShapes)
        => filler_words = _regex_hesitation_fillers(f_text)

\* The characters of t that no span of the list designates, in order.
RECURSIVE KeepUndesignated(_, _, _)
KeepUndesignated(t, spans, i) ==
    IF i >= Len(t) THEN <<>>
    ELSE IF \E k \in 1..Len(spans) :
              spans[k].position <= i /\ i < spans[k].position + spans[k].length
         THEN KeepUndesignated(t, spans, i + 1)
         ELSE <<t[i + 1]>> \o KeepUndesignated(t, spans, i + 1)

ValidSpan(t, sp) ==
    sp.position >= 0 /\ sp.length > 0 /\ sp.position + sp.length <= Len(t)

ValidNonOverlapping(t, spans) ==
    /\ \A k \in 1..Len(spans) : ValidSpan(t, spans[k])
    /\ \A j, k \in 1..Len(spans) :
          j # k => \/ spans[j].position + spans[j].length <= spans[k].position
                   \/ spans[k].position + spans[k].length <= spans[j].position

\* C2: for a non-empty list of valid non-overlapping spans, the result of
\* remove_filler_words is the original text with every span range removed,
\* then normalized: no deletion shifts a span still to be processed.
C2_RemovesDesignatedRanges ==
    (f_pc = "removed" /\ filler_words # <<>> /\ ValidNonOverlapping(f_text, filler_words))
        => cleaned_text = Normalize(KeepUndesignated(f_text, filler_words, 0))

\* C3: the list detect_filler_words_with_gpt returns is sorted by position
\* ascending and each span starts at or after the end of the span before it.
C3_SortedNonOverlapping ==
    Detected =>
        \A i \in 1..(Len(filler_words) - 1) :
            /\ filler_words[i].position <= filler_words[i + 1].position
            /\ filler_words[i + 1].position
                   >= filler_words[i].position + filler_words[i].length

\* C3 witness: two validated AI candidates were reported in descending
\* order of position, an AI span overlapped a later span that was dropped,
\* and two spans were returned.
C3_Witness ==
    /\ f_pc = "detected"
    /\ Len(f_reply.cands) = 2
    /\ Len(ValidatedFillers(f_text, f_reply.cands)) = 2
    /\ f_reply.cands[1].position > f_reply.cands[2].position
    /\ Len(filler_words) = 2
    /\ Len(MergeRegex(ValidatedFillers(f_text, f_reply.cands),
                      _regex_hesitation_fillers(f_text))) > 2

\* The text a span designates contains the reported word or is contained
\* in it, letter case ignored.
WordAtSpan(t, sp) ==
    LET here == Lower(PySlice(t, sp.position, sp.position + sp.length))
    IN  IsIn(Lower(sp.word), here) \/ IsIn(here, Lower(sp.word))

\* C4: every span detect_filler_words_with_gpt returns is a valid span of
\* the text whose characters contain, or are contained in, the reported word.
C4_ReturnedSpansValid ==
    Detected =>
        \A i \in 1..Len(filler_words) :
            ValidSpan(f_text, filler_words[i]) /\ WordAtSpan(f_text, filler_words[i])

\* The AI candidates of the reply are all valid spans of the text that
\* designate their word.
CandsAreValidSpans ==
    \A i \in 1..Len(f_reply.cands) :
        LET c == f_reply.cands[i]
        IN  /\ c.kind = "dict" /\ c.lenKind # "str"
            /\ ValidSpan(f_text, [position |-> c.position, length |-> CandLength(c)])
            /\ WordAtSpan(f_text, [word |-> c.word, position |-> c.position,
                                   length |-> CandLength(c)])

\* C5: for a reply that parses to a list of valid candidates, every span of
\* the deterministic pass is in the returned list.
C5_RegexSpansAlwaysReturned ==
    (Detected /\ f_reply.shape \in ListShapes \cup EmptyShapes /\ CandsAreValidSpans)
        => \A i \in 1..Len(_regex_hesitation_fillers(f_text)) :
              \E j \in 1..Len(filler_words) :
                  /\ filler_words[j].position = _regex_hesitation_fillers(f_text)[i].position
                  /\ filler_words[j].length = _regex_hesitation_fillers(f_text)[i].length

(***************************************************************************)
(* The metrics: wpm_calculation.py, pause_analysis.py                       *)
(*                                                                         *)
(* Times are held in hundredths of a second, scores and rates in           *)
(* hundredths, pause_ratio in thousandths, so that round(x, 2) and         *)
(* round(x, 3) are roundings to an integer.                                *)
(***************************************************************************)

Min(a, b) == IF a <= b THEN a ELSE b

Max(a, b) == IF a >= b THEN a ELSE b

\* round(n / d) for n >= 0 and d > 0.  When n / d lies exactly between two
\* integers the float that Python rounds lies on one side or the other of
\* the tie, so both neighbours are possible results.
RoundSet(n, d) ==
    LET q == n \div d
        r == n % d
    IN  IF 2 * r < d THEN {q} ELSE IF 2 * r > d THEN {q + 1} ELSE {q, q + 1}

\* len(re.findall(r'\b\w+\b', text)): the maximal runs of word characters.
RECURSIVE CountWordsFrom(_, _)
CountWordsFrom(t, i) ==
    IF i > Len(t) THEN 0
    ELSE (IF IsWordChar(t[i]) /\ (i = 1 \/ ~IsWordChar(t[i - 1])) THEN 1 ELSE 0)
         + CountWordsFrom(t, i + 1)

count_words(text) == CountWordsFrom(text, 1)

\* A rate cut off after two decimal places.
calculate_wpm_Truncated(text, duration_seconds) ==
    LET word_count == count_words(text)
    IN  {[word_count |-> word_count, duration_seconds |-> duration_seconds,
          wpm |-> IF duration_seconds > 0
                  THEN (word_count * 600000) \div duration_seconds
                  ELSE 0]}

\* The results calculate_wpm can return (one, or two at a rounding tie).
calculate_wpm(text, duration_seconds) ==
    LET word_count == count_words(text)
    IN  {[word_count |-> word_count, duration_seconds |-> duration_seconds, wpm |-> wpm] :
            wpm \in IF duration_seconds > 0
                    THEN RoundSet(word_count * 600000, duration_seconds)
                    ELSE {0}}

\* pause_threshold=0.5 of the endpoint's call, in hundredths of a second.
pause_threshold == 50

\* The gaps that exceed the threshold.
RECURSIVE PauseDurations_AboveThreshold(_, _)
PauseDurations_AboveThreshold(segments, i) ==
    IF i >= Len(segments) THEN <<>>
    ELSE LET pause_duration == segments[i + 1].start - segments[i].end
         IN  (IF pause_duration > pause_threshold THEN <<pause_duration>> ELSE <<>>)
             \o PauseDurations_AboveThreshold(segments, i + 1)

\* The gaps between adjacent segments that reach the threshold (lines 41-53).
RECURSIVE PauseDurations(_, _)
PauseDurations(segments, i) ==
    IF i >= Len(segments) THEN <<>>
    ELSE LET pause_duration == segments[i + 1].start - segments[i].end
         IN  (IF pause_duration >= pause_threshold THEN <<pause_duration>> ELSE <<>>)
             \o PauseDurations(segments, i + 1)

RECURSIVE SumSeq(_)
SumSeq(s) == IF s = <<>> THEN 0 ELSE Head(s) + SumSeq(Tail(s))

\* An analysis that looks for hesitation sounds only when it has segments.
HesitationsNeedSegments(text, segments) ==
    LET hesitation_matches == IF segments.isNone THEN <<>>
                              ELSE _regex_hesitation_fillers(text)
        hesitation_words == [i \in 1..Len(hesitation_matches) |-> hesitation_matches[i].word]
        pause_durations == IF ~segments.isNone /\ Len(segments.v) > 1
                           THEN PauseDurations(segments.v, 1)
                           ELSE <<>>
    IN  {[total_pauses |-> Len(pause_durations),
          total_hesitations |-> Len(hesitation_words),
          pause_durations |-> pause_durations,
          average_pause_duration |-> avg,
          total_pause_time |-> SumSeq(pause_durations),
          hesitation_words |-> hesitation_words] :
            avg \in IF pause_durations # <<>>
                    THEN RoundSet(SumSeq(pause_durations), Len(pause_durations))
                    ELSE {0}}

\* segments is None or a list of segments with a start and an end time.
analyze_pauses_and_hesitations(text, segments) ==
    LET hesitation_matches == _regex_hesitation_fillers(text)
        hesitation_words == [i \in 1..Len(hesitation_matches) |-> hesitation_matches[i].word]
        pause_durations == IF ~segments.isNone /\ Len(segments.v) > 1
                           THEN PauseDurations(segments.v, 1)
                           ELSE <<>>
    IN  {[total_pauses |-> Len(pause_durations),
          total_hesitations |-> Len(hesitation_words),
          pause_durations |-> pause_durations,
          average_pause_duration |-> avg,
          total_pause_time |-> SumSeq(pause_durations),
          hesitation_words |-> hesitation_words] :
            avg \in IF pause_durations # <<>>
                    THEN RoundSet(SumSeq(pause_durations), Len(pause_durations))
                    ELSE {0}}

\* A score whose pause penalty has no cap.
FluencyNumerator_PauseUncapped(total_duration, total_pause_time, hesitation_count, word_count) ==
    LET words == Max(word_count, 1)
        pause_penalty == 50 * total_pause_time
        hesitation_penalty == IF word_count > 0
                              THEN Min(50 * hesitation_count, 30 * word_count)
                              ELSE 0
    IN  Max(0, 100 * total_duration * words - pause_penalty * words
                   - hesitation_penalty * total_duration)

\* fluency_score * (duration * words) before the rounding: 100 minus the
\* pause penalty min(pause_ratio * 50, 50) and the hesitation penalty
\* min(hesitation_rate * 0.5, 30), not below 0.
FluencyNumerator(total_duration, total_pause_time, hesitation_count, word_count) ==
    LET words == Max(word_count, 1)
        pause_penalty == Min(50 * total_pause_time, 50 * total_duration)
        hesitation_penalty == IF word_count > 0
                              THEN Min(50 * hesitation_count, 30 * word_count)
                              ELSE 0
    IN  Max(0, 100 * total_duration * words - pause_penalty * words
                   - hesitation_penalty * total_duration)

\* A score that starts from the full 100 when there is no duration.
FluencyFullWithoutDuration(total_duration, total_pause_time, hesitation_count, word_count) ==
    IF total_duration = 0
    THEN {[fluency_score |-> 10000, pause_ratio |-> 0, hesitation_rate |-> 0]}
    ELSE {[fluency_score |-> f, pause_ratio |-> p, hesitation_rate |-> h] :
            f \in RoundSet(100 * FluencyNumerator(total_duration, total_pause_time,
                                                   hesitation_count, word_count),
                           total_duration * Max(word_count, 1)),
            p \in RoundSet(1000 * total_pause_time, total_duration),
            h \in IF word_count > 0 THEN RoundSet(10000 * hesitation_count, word_count)
                  ELSE {0}}

calculate_fluency_score(total_duration, total_pause_time, hesitation_count, word_count) ==
    IF total_duration = 0
    THEN {[fluency_score |-> 0, pause_ratio |-> 0, hesitation_rate |-> 0]}
    ELSE {[fluency_score |-> f, pause_ratio |-> p, hesitation_rate |-> h] :
            f \in RoundSet(100 * FluencyNumerator(total_duration, total_pause_time,
                                                   hesitation_count, word_count),
                           total_duration * Max(word_count, 1)),
            p \in RoundSet(1000 * total_pause_time, total_duration),
            h \in IF word_count > 0 THEN RoundSet(10000 * hesitation_count, word_count)
                  ELSE {0}}

(***************************************************************************)
(* calculate_confidence_score (confidence_analysis.py, lines 46-147)        *)
(*                                                                         *)
(* The component scores are kept exact until the rounding of the return    *)
(* statement: each is held as an integer multiple of a fixed fraction.     *)
(***************************************************************************)

\* A rate score that falls from 50 with the denominator 30 below 100.
WpmScore_SteeperBelow(wpm) ==
    IF 13000 <= wpm /\ wpm <= 15000 THEN 120000
    ELSE IF 11500 <= wpm /\ wpm < 13000 THEN 84000 + (wpm - 11500) * 24
    ELSE IF 15000 < wpm /\ wpm <= 16500 THEN 120000 - (wpm - 15000) * 24
    ELSE IF 10000 <= wpm /\ wpm < 11500 THEN 60000 + (wpm - 10000) * 16
    ELSE IF 16500 < wpm /\ wpm <= 18500 THEN 84000 - (wpm - 16500) * 24
    ELSE IF wpm < 10000 THEN Max(0, 60000 - (10000 - wpm) * 20)
    ELSE Max(0, 36000 - (wpm - 18500) * 12)

\* A rate score whose outer pieces are not held at 0.
WpmScore_WithoutFloor(wpm) ==
    IF 13000 <= wpm /\ wpm <= 15000 THEN 120000
    ELSE IF 11500 <= wpm /\ wpm < 13000 THEN 84000 + (wpm - 11500) * 24
    ELSE IF 15000 < wpm /\ wpm <= 16500 THEN 120000 - (wpm - 15000) * 24
    ELSE IF 10000 <= wpm /\ wpm < 11500 THEN 60000 + (wpm - 10000) * 16
    ELSE IF 16500 < wpm /\ wpm <= 18500 THEN 84000 - (wpm - 16500) * 24
    ELSE IF wpm < 10000 THEN 60000 - (10000 - wpm) * 15
    ELSE 36000 - (wpm - 18500) * 12

\* wpm_score * 1200, for wpm in hundredths (lines 48-61).
WpmScore(wpm) ==
    IF 13000 <= wpm /\ wpm <= 15000 THEN 120000
    ELSE IF 11500 <= wpm /\ wpm < 13000 THEN 84000 + (wpm - 11500) * 24
    ELSE IF 15000 < wpm /\ wpm <= 16500 THEN 120000 - (wpm - 15000) * 24
    ELSE IF 10000 <= wpm /\ wpm < 11500 THEN 60000 + (wpm - 10000) * 16
    ELSE IF 16500 < wpm /\ wpm <= 18500 THEN 84000 - (wpm - 16500) * 24
    ELSE IF wpm < 10000 THEN Max(0, 60000 - (10000 - wpm) * 15)
    ELSE Max(0, 36000 - (wpm - 18500) * 12)

\* filler_score * 6 * max(word_count, 1) (lines 64-75); fillers_per_100 is
\* filler_count / word_count * 100, or 0 without words.
FillerScore(filler_count, word_count) ==
    IF word_count <= 0 THEN 600
    ELSE IF 100 * filler_count <= word_count THEN 600 * word_count
    ELSE IF 200 * filler_count <= 5 * word_count THEN 550 * word_count - 10000 * filler_count
    ELSE IF 100 * filler_count <= 5 * word_count THEN 450 * word_count - 6000 * filler_count
    ELSE IF 100 * filler_count <= 8 * word_count THEN 350 * word_count - 4000 * filler_count
    ELSE Max(0, 54 * word_count - 300 * filler_count)

\* A pause score whose full band ends short of 0.05.
PauseScore_BandExclusive(pause_ratio) ==
    IF pause_ratio < 50 THEN 8000
    ELSE IF pause_ratio <= 100 THEN 6400 - (pause_ratio - 50) * 48
    ELSE IF pause_ratio <= 180 THEN 4000 - (pause_ratio - 100) * 35
    ELSE IF pause_ratio <= 280 THEN 1200 - (pause_ratio - 180) * 12
    ELSE 0

\* pause_score * 80, for pause_ratio in thousandths (lines 78-87).
PauseScore(pause_ratio) ==
    IF pause_ratio <= 50 THEN 8000
    ELSE IF pause_ratio <= 100 THEN 6400 - (pause_ratio - 50) * 48
    ELSE IF pause_ratio <= 180 THEN 4000 - (pause_ratio - 100) * 35
    ELSE IF pause_ratio <= 280 THEN 1200 - (pause_ratio - 180) * 12
    ELSE 0

\* hesitation_score * 20, for hesitation_rate in hundredths (lines 90-99).
HesitationScore(hesitation_rate) ==
    IF hesitation_rate <= 150 THEN 2000
    ELSE IF hesitation_rate <= 300 THEN 1600 - (hesitation_rate - 150) * 4
    ELSE IF hesitation_rate <= 600 THEN 1000 - (hesitation_rate - 300) * 2
    ELSE IF hesitation_rate <= 1000 THEN 400 - (hesitation_rate - 600)
    ELSE 0

\* A composite that gives each of the five scores the weight 0.2.
ConfidenceScore_EqualWeights(wpm, filler_count, word_count, pause_ratio, hesitation_rate, fluency_score) ==
    LET words == Max(word_count, 1)
    IN  WpmScore(wpm) * 4 * words
        + FillerScore(filler_count, word_count) * 800
        + PauseScore(pause_ratio) * 60 * words
        + HesitationScore(hesitation_rate) * 240 * words
        + fluency_score * 48 * words

\* confidence_score * 24000 * max(word_count, 1): the weighted sum with the
\* weights 0.25, 0.25, 0.20, 0.15, 0.15 (lines 102-108); fluency_score in
\* hundredths.
ConfidenceScore(wpm, filler_count, word_count, pause_ratio, hesitation_rate, fluency_score) ==
    LET words == Max(word_count, 1)
    IN  WpmScore(wpm) * 5 * words
        + FillerScore(filler_count, word_count) * 1000
        + PauseScore(pause_ratio) * 60 * words
        + HesitationScore(hesitation_rate) * 180 * words
        + fluency_score * 36 * words

\* A rating whose thresholds are exclusive.
OverallRating_Exclusive(score, unit) ==
    IF score > 90 * unit THEN "Excellent"
    ELSE IF score > 75 * unit THEN "Good"
    ELSE IF score > 58 * unit THEN "Moderate"
    ELSE IF score > 42 * unit THEN "Low"
    ELSE "Very Low"

\* The rating of a score given as score * unit (lines 111-120).
OverallRating(score, unit) ==
    IF score >= 90 * unit THEN "Excellent"
    ELSE IF score >= 75 * unit THEN "Good"
    ELSE IF score >= 58 * unit THEN "Moderate"
    ELSE IF score >= 42 * unit THEN "Low"
    ELSE "Very Low"

\* The bundles the function can return for the recommendations that
\* _generate_recommendations_with_gpt gave it.
calculate_confidence_score(wpm, filler_count, word_count, pause_ratio, hesitation_rate, fluency_score, recommendations) ==
    LET words == Max(word_count, 1)
        confidence_score == ConfidenceScore(wpm, filler_count, word_count, pause_ratio,
                                            hesitation_rate, fluency_score)
    IN  {[confidence_score |-> c, wpm_score |-> w, filler_score |-> f, pause_score |-> p,
          hesitation_score |-> 5 * HesitationScore(hesitation_rate),
          overall_rating |-> OverallRating(confidence_score, 24000 * words),
          recommendations |-> recommendations] :
            c \in RoundSet(confidence_score, 240 * words),
            w \in RoundSet(WpmScore(wpm), 12),
            f \in RoundSet(100 * FillerScore(filler_count, word_count), 6 * words),
            p \in RoundSet(5 * PauseScore(pause_ratio), 4)}

(***************************************************************************)
(* The off-topic penalty of the endpoint (routes/transcription.py 258-275)  *)
(***************************************************************************)

\* A penalty without the ceiling.
Penalized_WithoutCeiling(score, cap) == RoundSet(score, 2)

\* A penalty that leaves a third of the score.
Penalized_ToThird(score, cap) == IF score >= 3 * cap THEN {cap} ELSE RoundSet(score, 3)

\* round(min(score * penalty, cap), 2) with penalty = 0.5; score and cap in
\* hundredths.
Penalized(score, cap) == IF score >= 2 * cap THEN {cap} ELSE RoundSet(score, 2)

\* The two fixed recommendations; the first one quotes the title.
OffTopicRecommendations(title) ==
    [isList |-> TRUE,
     items |-> <<StrEntry(<<"Try to address the challenge topic: ", "\"">> \o OrEmpty(title)
                          \o <<"\"", ". Speak about the question or key points related to it ",
                               "instead of going off-topic.">>),
                 StrEntry(<<"Your response was not related to the given challenge. ",
                            "Next time, stay on topic to get a proper score and feedback.">>)>>]

\* confidence_data of the off-topic branch.
OffTopicBundles(confidence_data, title) ==
    {[confidence_score |-> c, wpm_score |-> w, filler_score |-> f, pause_score |-> p,
      hesitation_score |-> h, overall_rating |-> "Low",
      recommendations |-> OffTopicRecommendations(title)] :
        c \in Penalized(confidence_data.confidence_score, 4000),
        w \in Penalized(confidence_data.wpm_score, 5000),
        f \in Penalized(confidence_data.filler_score, 5000),
        p \in Penalized(confidence_data.pause_score, 5000),
        h \in Penalized(confidence_data.hesitation_score, 5000)}

(***************************************************************************)
(* transcribe_audio_file (services/transcription.py)                        *)
(***************************************************************************)

\* Sum of max(0, end - start) over the segments (lines 56-64).
RECURSIVE SpeakingTotal(_)
SpeakingTotal(segments) ==
    IF segments = <<>> THEN 0
    ELSE Max(0, Head(segments).end - Head(segments).start) + SpeakingTotal(Tail(segments))

\* max(ends) of a non-empty list of segments (lines 72-79).
RECURSIVE MaxEnd(_)
MaxEnd(segments) ==
    IF Len(segments) = 1 THEN Head(segments).end
    ELSE Max(Head(segments).end, MaxEnd(Tail(segments)))

\* The order of the design text: the sum of the segment lengths first, then
\* the top-level duration, then the largest segment end.
ResolveDuration_SegmentSumFirst(raw_duration, segments) ==
    LET has_segments == ~segments.isNone /\ segments.v # <<>>
        d1 == IF has_segments /\ SpeakingTotal(segments.v) > 0
              THEN SpeakingTotal(segments.v) ELSE 0
        d2 == IF d1 <= 0 /\ ~raw_duration.isNone /\ raw_duration.v > 0
              THEN raw_duration.v ELSE d1
    IN  IF d2 <= 0 /\ has_segments THEN MaxEnd(segments.v) ELSE d2

\* The duration: the top-level duration when it is positive, then the sum
\* of the segment lengths, then the largest segment end (lines 45-81).
ResolveDuration(raw_duration, segments) ==
    LET has_segments == ~segments.isNone /\ segments.v # <<>>
        d1 == IF ~raw_duration.isNone /\ raw_duration.v > 0 THEN raw_duration.v ELSE 0
        d2 == IF d1 <= 0 /\ has_segments /\ SpeakingTotal(segments.v) > 0
              THEN SpeakingTotal(segments.v) ELSE d1
    IN  IF d2 <= 0 /\ has_segments THEN MaxEnd(segments.v) ELSE d2

\* The dictionary returned for the object the transcription call returned.
transcribe_audio_file(transcription) ==
    [text |-> transcription.text,
     duration_seconds |-> ResolveDuration(transcription.duration, transcription.segments),
     segments |-> transcription.segments,
     language |-> transcription.language]

(***************************************************************************)
(* generate_improved_text (services/filler_detection.py, lines 226-291)     *)
(***************************************************************************)

\* re.sub(r'^"|"$', '', s): a quote at the start and a quote at the end.
StripQuotes(s) ==
    LET a == IF s # <<>> /\ Head(s) = "\"" THEN Tail(s) ELSE s
    IN  IF a # <<>> /\ a[Len(a)] = "\"" THEN SubSeq(a, 1, Len(a) - 1) ELSE a

\* get_openai_client is called before the try block (line 243); inside it
\* every exception (the call raises, the content is None) returns the text.
generate_improved_text(text, client, ext) ==
    LET got == get_openai_client(client, ext.construct)
    IN  IF got.raised THEN [raised |-> TRUE, value |-> <<>>, client |-> got.client]
        ELSE IF ext.call = "error" \/ ext.content.isNone
        THEN [raised |-> FALSE, value |-> text, client |-> got.client]
        ELSE [raised |-> FALSE, value |-> StripQuotes(Strip(ext.content.v)),
              client |-> got.client]

OFF_TOPIC_MESSAGE ==
    <<"Your response doesn't seem to address the challenge topic. ",
      "Please try again and speak about the given question or topic.">>

(***************************************************************************)
(* POST /api/v1/transcribe (routes/transcription.py, transcribe_audio)      *)
(***************************************************************************)

\* The upload: a supported content type; no content type and a supported
\* file extension, an unsupported one, or no file name; a content type that
\* is neither in SUPPORTED_AUDIO_FORMATS nor starts with audio/.
FileKinds == {"audio_type", "ext_ok", "ext_bad", "no_name", "bad_type"}

\* Lines 113-135.
FileAccepted(file) == file \in {"audio_type", "ext_ok"}

PipeTitles == {None, Some(<<" ">>), Some(<<"T">>)}

\* A test that takes a blank title for a title.
HasTitle_Blank(title) == ~title.isNone

\* title and title.strip()
HasTitle(title) == ~title.isNone /\ Strip(title.v) # <<>>

PipeTexts ==
    {<<>>, <<" ">>, <<"u", "m">>, <<"m", " ", "m">>, <<"u", "m", " ", "m", ",", "m">>}

\* The top-level duration of the transcription object, when it has one.
PipeDurations == {None, Some(85), Some(200)}

\* The segments: absent, none, one, two with a gap of 0.5 s, two of length 0.
PipeSegments ==
    {None, Some(<<>>), Some(<<[start |-> 0, end |-> 85]>>),
     Some(<<[start |-> 0, end |-> 40], [start |-> 90, end |-> 130]>>),
     Some(<<[start |-> 10, end |-> 10], [start |-> 20, end |-> 20]>>)}

PipeLanguages ==
    {None, Some(<<"e", "n">>), Some(<<" ", "E", "N", " ">>), Some(<<"f", "r">>)}

\* What the transcription does: the client cannot be built or the call
\* raises, or the call returns a transcription object.
TranscriptionOutcomes ==
    [construct : ConstructOutcomes, call : {"error"}, text : {<<>>},
     duration : {None}, segments : {None}, language : {None}]
    \cup [construct : {"ok"}, call : {"ok"}, text : PipeTexts,
          duration : PipeDurations, segments : PipeSegments, language : PipeLanguages]

\* Replies of the filler-detection call inside a request.
PipeFillerReplies(text) ==
    {r \in FillerReplies(text) :
        \/ r.shape \in {"call_error", "text_plain"}
        \/ /\ r.shape = "json_fillers"
           /\ r.cands \in {<<>>, <<[kind |-> "dict", word |-> <<"u", "m">>, position |-> 0,
                                    lenKind |-> "missing", length |-> 0]>>}}

\* Replies of the recommendation call inside a request.
PipeRecExts ==
    {e \in RecExts :
        /\ e.construct = "ok"
        /\ \/ e.shape = "call_error"
           \/ /\ e.shape = "json_obj_recs"
              /\ e.value = [isList |-> TRUE, items |-> <<StrEntry(<<"a">>)>>]
           \/ /\ e.shape = "text_codeblock_recs"
              /\ \/ ~e.value.isList
                 \/ e.value.items \in {<<>>, <<StrEntry(<<"a">>)>>, <<[t |-> "num", s |-> <<>>]>>}}

\* Replies of the relevance call inside a request.
PipeRelevanceExts ==
    {e \in RelevanceExts :
        /\ e.construct = "ok"
        /\ e.call = "error" \/ e.content \in {Some(YES), Some(<<"N", "O">>), Some(<<>>)}}

\* Replies of the improved-text call.
ImproveExts ==
    [construct : {"ok"}, call : {"error"}, content : {None}]
    \cup [construct : {"ok"}, call : {"ok"},
          content : {None, Some(<<"m">>), Some(<<" ", "\"", "m", "\"">>)}]

\* Lines 311-313 and the validation of the response model: rec[:120]
\* raises for an entry that is no string, and recommendations: List[str]
\* rejects a value that is no list of strings.
ResponseRaises(confidence_data) ==
    LET recs == confidence_data.recommendations
    IN  ~recs.isList \/ \E i \in 1..Len(recs.items) : recs.items[i].t # "str"

\* TranscriptionResponse(...), lines 314-343: the fields of the schema.
TranscriptionResponse(loc) ==
    [text |-> loc.text,
     filler_words |-> loc.filler_words,
     filler_count |-> Len(loc.filler_words),
     cleaned_text |-> loc.cleaned_text,
     duration_seconds |-> loc.wpm_data.duration_seconds,
     word_count |-> loc.wpm_data.word_count,
     wpm |-> loc.wpm_data.wpm,
     total_pauses |-> loc.pause_data.total_pauses,
     total_hesitations |-> loc.pause_data.total_hesitations,
     pause_durations |-> loc.pause_data.pause_durations,
     average_pause_duration |-> loc.pause_data.average_pause_duration,
     total_pause_time |-> loc.pause_data.total_pause_time,
     hesitation_words |-> loc.pause_data.hesitation_words,
     fluency_score |-> loc.fluency_data.fluency_score,
     pause_ratio |-> loc.fluency_data.pause_ratio,
     hesitation_rate |-> loc.fluency_data.hesitation_rate,
     confidence_score |-> loc.confidence_data.confidence_score,
     wpm_score |-> loc.confidence_data.wpm_score,
     filler_score |-> loc.confidence_data.filler_score,
     pause_score |-> loc.confidence_data.pause_score,
     hesitation_score |-> loc.confidence_data.hesitation_score,
     overall_rating |-> loc.confidence_data.overall_rating,
     recommendations |-> loc.confidence_data.recommendations]

\* The request ends with an HTTPException; the temporary file is removed
\* when it exists.
PipeFail(status, stage) ==
    /\ p_pc' = "done"
    /\ p_tmp' = FALSE
    /\ p_resp' = [status |-> status, stage |-> stage, body |-> None]

\* Lines 291-343: the temporary file is removed and the response is built;
\* an exception on the way is turned into a 500 by lines 348-356.
Respond(loc) ==
    /\ p_pc' = "done"
    /\ p_tmp' = FALSE
    /\ p_loc' = loc
    /\ p_resp' = IF ResponseRaises(loc.confidence_data)
                 THEN [status |-> 500, stage |-> "response", body |-> None]
                 ELSE [status |-> 200, stage |-> "response",
                       body |-> Some(TranscriptionResponse(loc))]

InitPipeline ==
    /\ f_pc = "idle" /\ f_text = <<>> /\ f_reply = NoReply
    /\ filler_words = <<>> /\ cleaned_text = <<>>
    /\ g_pc = "idle" /\ g_title = None /\ g_user_text = None
    /\ g_ext = [construct |-> "ok", call |-> "none", content |-> None]
    /\ g_result = [raised |-> FALSE, value |-> FALSE, consulted |-> FALSE]
    /\ openai_client \in {"none", "client"}
    /\ p_pc = "request"
    /\ p_in \in [file : FileKinds, title : PipeTitles]
    /\ p_tmp = FALSE
    /\ p_ext = NoCalls
    /\ p_loc = NoLocals
    /\ p_resp = NoResponse
    /\ ConcIdle
    /\ MetricsIdle

\* Lines 104-150: the file type is validated, the upload is written to the
\* temporary file and the transcription is requested.
Receive ==
    /\ p_pc = "request"
    /\ IF FileAccepted(p_in.file)
       THEN p_tmp' = TRUE /\ p_pc' = "transcribing" /\ UNCHANGED p_resp
       ELSE PipeFail(400, "file_type")
    /\ UNCHANGED <<p_in, p_ext, p_loc, openai_client>>
    /\ UNCHANGED <<fillerVars, g_pc, g_title, g_user_text, g_ext, g_result, concVars, metricVars>>

\* Lines 150-197: the transcription returns or raises; language, text and
\* duration are checked and the filler detection is requested.
Transcribed ==
    /\ p_pc = "transcribing"
    /\ \E tr \in TranscriptionOutcomes :
          LET got == get_openai_client(openai_client, tr.construct)
              result == transcribe_audio_file(tr)
              detected_language == Lower(Strip(OrEmpty(result.language)))
          IN  /\ openai_client' = got.client
              /\ p_ext' = [p_ext EXCEPT !.transcription = tr]
              /\ IF got.raised \/ tr.call = "error"
                 THEN PipeFail(500, "transcription") /\ UNCHANGED p_loc
                 ELSE IF /\ detected_language # <<>>
                         /\ detected_language \notin {<<"e", "n">>,
                                <<"e", "n", "g", "l", "i", "s", "h">>}
                 THEN PipeFail(400, "language") /\ UNCHANGED p_loc
                 ELSE IF Strip(result.text) = <<>>
                 THEN PipeFail(400, "empty") /\ UNCHANGED p_loc
                 ELSE IF result.duration_seconds <= 0
                 THEN PipeFail(400, "duration") /\ UNCHANGED p_loc
                 ELSE /\ p_loc' = [p_loc EXCEPT !.text = result.text,
                                                !.duration_seconds = result.duration_seconds,
                                                !.segments = result.segments]
                      /\ p_pc' = "detecting"
                      /\ UNCHANGED <<p_tmp, p_resp>>
    /\ UNCHANGED p_in
    /\ UNCHANGED <<fillerVars, g_pc, g_title, g_user_text, g_ext, g_result, concVars, metricVars>>

\* Lines 197-236: the filler detection returns; the text is cleaned, the
\* metrics are computed and the confidence scorer is entered, which asks
\* for the recommendations.
FillersDetected ==
    /\ p_pc = "detecting"
    /\ \E r \in PipeFillerReplies(p_loc.text) :
          LET fillers == detect_filler_words_with_gpt(p_loc.text, r)
          IN  \E wpm_data \in calculate_wpm(p_loc.text, p_loc.duration_seconds),
                 pause_data \in analyze_pauses_and_hesitations(p_loc.text, p_loc.segments) :
                \E fluency_data \in calculate_fluency_score(p_loc.duration_seconds,
                                        pause_data.total_pause_time,
                                        pause_data.total_hesitations,
                                        wpm_data.word_count) :
                   /\ p_ext' = [p_ext EXCEPT !.filler = r]
                   /\ p_loc' = [p_loc EXCEPT
                                   !.filler_words = fillers,
                                   !.cleaned_text = remove_filler_words(p_loc.text, fillers),
                                   !.wpm_data = wpm_data,
                                   !.pause_data = pause_data,
                                   !.fluency_data = fluency_data]
    /\ p_pc' = "scoring"
    /\ UNCHANGED <<p_in, p_tmp, p_resp, openai_client>>
    /\ UNCHANGED <<fillerVars, g_pc, g_title, g_user_text, g_ext, g_result, concVars, metricVars>>

\* Lines 236-253 (and 278 without a title): the recommendations return and
\* calculate_confidence_score returns its bundle; with a non-blank title
\* the relevance check is requested, else the improved text.
Scored ==
    /\ p_pc = "scoring"
    /\ \E ext \in PipeRecExts :
          LET recs == _generate_recommendations_with_gpt(openai_client, ext)
          IN  /\ openai_client' = recs.client
              /\ p_ext' = [p_ext EXCEPT !.recs = ext]
              /\ \E confidence_data \in calculate_confidence_score(
                        p_loc.wpm_data.wpm, Len(p_loc.filler_words),
                        p_loc.wpm_data.word_count, p_loc.fluency_data.pause_ratio,
                        p_loc.fluency_data.hesitation_rate,
                        p_loc.fluency_data.fluency_score, recs.value) :
                    p_loc' = [p_loc EXCEPT !.confidence_data = confidence_data]
    /\ p_pc' = IF HasTitle(p_in.title) THEN "relevance" ELSE "improving"
    /\ UNCHANGED <<p_in, p_tmp, p_resp>>
    /\ UNCHANGED <<fillerVars, g_pc, g_title, g_user_text, g_ext, g_result, concVars, metricVars>>

\* An off-topic branch that also blanks the cleaned text.
OffTopicLocals_BlanksCleanedText(loc, confidence_data) ==
    [loc EXCEPT !.off_topic = TRUE,
                !.improved_text = OFF_TOPIC_MESSAGE,
                !.cleaned_text = <<>>,
                !.confidence_data = confidence_data]

\* Lines 258-275: the locals after the off-topic branch; improved_text and
\* confidence_data are rebound, nothing else is.
OffTopicLocals(loc, confidence_data) ==
    [loc EXCEPT !.off_topic = TRUE,
                !.improved_text = OFF_TOPIC_MESSAGE,
                !.confidence_data = confidence_data]

\* Lines 253-275 and 291-343: the relevance check returns.  Off-topic: the
\* fixed message, the penalty, and the response.  Relevant: the improved
\* text is requested.
RelevanceChecked ==
    /\ p_pc = "relevance"
    /\ \E ext \in PipeRelevanceExts :
          LET r == check_answer_relevance_to_title(Some(Strip(p_in.title.v)),
                       Some(p_loc.text), openai_client, ext)
          IN  /\ openai_client' = r.client
              /\ p_ext' = [p_ext EXCEPT !.relevance = ext]
              /\ IF r.raised
                 THEN PipeFail(500, "relevance") /\ UNCHANGED p_loc
                 ELSE IF ~r.value
                 THEN \E confidence_data \in OffTopicBundles(p_loc.confidence_data, p_in.title) :
                         Respond(OffTopicLocals(p_loc, confidence_data))
                 ELSE p_pc' = "improving" /\ UNCHANGED <<p_loc, p_tmp, p_resp>>
    /\ UNCHANGED p_in
    /\ UNCHANGED <<fillerVars, g_pc, g_title, g_user_text, g_ext, g_result, concVars, metricVars>>

\* Lines 278-343: the improved text returns, and the response is built.
Improved ==
    /\ p_pc = "improving"
    /\ \E ext \in ImproveExts :
          LET r == generate_improved_text(p_loc.cleaned_text, openai_client, ext)
          IN  /\ openai_client' = r.client
              /\ p_ext' = [p_ext EXCEPT !.improve = ext]
              /\ IF r.raised
                 THEN PipeFail(500, "improved_text") /\ UNCHANGED p_loc
                 ELSE Respond([p_loc EXCEPT !.improved_text = r.value])
    /\ UNCHANGED p_in
    /\ UNCHANGED <<fillerVars, g_pc, g_title, g_user_text, g_ext, g_result, concVars, metricVars>>

NextPipeline ==
    \/ Receive
    \/ Transcribed
    \/ FillersDetected
    \/ Scored
    \/ RelevanceChecked
    \/ Improved

SpecPipeline == InitPipeline /\ [][NextPipeline]_vars

(***************************************************************************)
(* Claims about the endpoint                                                *)
(***************************************************************************)

\* The request ended on the off-topic path.
OffTopicDone == p_pc = "done" /\ p_loc.off_topic

\* C6: when the relevance check judges the transcript off-topic, the request
\* is answered with confidence_score <= 40, every component score <= 50,
\* the rating "Low" and exactly the two fixed recommendations, whatever
\* bundle the scorer produced.
C6_OffTopicCapped ==
    OffTopicDone =>
        /\ p_resp.status = 200
        /\ ~p_resp.body.isNone
        /\ p_resp.body.v.confidence_score <= 4000
        /\ p_resp.body.v.wpm_score <= 5000
        /\ p_resp.body.v.filler_score <= 5000
        /\ p_resp.body.v.pause_score <= 5000
        /\ p_resp.body.v.hesitation_score <= 5000
        /\ p_resp.body.v.overall_rating = "Low"
        /\ p_resp.body.v.recommendations = OffTopicRecommendations(p_in.title)
        /\ Len(p_resp.body.v.recommendations.items) = 2

\* An off-topic response whose scorer bundle was above the ceilings before
\* the penalty: the confidence ceiling binds, and the scorer's own
\* recommendations were replaced.
C6_Witness ==
    /\ OffTopicDone
    /\ p_resp.status = 200
    /\ p_ext.relevance.call = "ok"
    /\ p_ext.recs.shape = "text_codeblock_recs"
    /\ ~p_resp.body.isNone
    /\ p_resp.body.v.confidence_score = 4000
    /\ p_resp.body.v.wpm_score = 5000

\* C10: a request ends with an error only when the upload is rejected, the
\* transcription fails, or the transcript lacks mandatory data (language,
\* text, duration); whatever the later external calls do, the request is
\* answered with a full response.
C10_LaterFailuresDegrade ==
    p_pc = "done" =>
        \/ p_resp.status = 200 /\ ~p_resp.body.isNone
        \/ p_resp.stage \in {"file_type", "transcription", "language", "empty", "duration"}

(***************************************************************************)
(* Requests in flight together (routes/transcription.py, transcribe_audio)  *)
(*                                                                         *)
(* Each request is a handler of its own; the handlers interleave at the    *)
(* external calls.  What they share is /tmp, where every handler keeps its *)
(* upload under /tmp/{file.filename} from line 144 to line 293, and the    *)
(* client handle of config.py.  The later external calls (filler           *)
(* detection, recommendations, relevance, improved text) touch neither and *)
(* are one step here; their replies are left out, so that the response of  *)
(* a request is determined by the audio that was transcribed for it.       *)
(***************************************************************************)

\* Every variable of the other specifications at rest.
OthersIdle ==
    /\ f_pc = "idle" /\ f_text = <<>> /\ f_reply = NoReply
    /\ filler_words = <<>> /\ cleaned_text = <<>>
    /\ g_pc = "idle" /\ g_title = None /\ g_user_text = None
    /\ g_ext = [construct |-> "ok", call |-> "none", content |-> None]
    /\ g_result = [raised |-> FALSE, value |-> FALSE, consulted |-> FALSE]
    /\ PipeIdle

InitConcurrent ==
    /\ OthersIdle
    /\ openai_client \in {"none", "client"}
    /\ c_pc = [i \in Requests |-> "request"]
    /\ c_req \in [Requests -> [filename : FileNames, usable : BOOLEAN]]
    /\ tmp_files = [f \in FileNames |-> 0]
    /\ c_heard = [i \in Requests |-> 0]
    /\ c_resp = [i \in Requests |-> [status |-> 0, heard |-> 0]]
    /\ MetricsIdle

\* temp_file_path = f"/tmp/{file.filename}" (line 144)
temp_file_path(i) == c_req[i].filename

\* if os.path.exists(temp_file_path): os.remove(temp_file_path)
RemoveTempFile(i) == [tmp_files EXCEPT ![temp_file_path(i)] = 0]

\* Lines 141-150 and services/transcription.py 25-38: the upload is written
\* to the temporary file, the client handle is fetched and the
\* transcription call is started on the open file.  open(path, "wb")
\* truncates a file that is there: a transcription call of another request
\* that is reading the same file reads on in the new content, unless it had
\* read the file to its end already.
Save(i) ==
    /\ c_pc[i] = "request"
    /\ tmp_files' = [tmp_files EXCEPT ![temp_file_path(i)] = i]
    /\ openai_client' = get_openai_client(openai_client, "ok").client
    /\ \E overtaken \in SUBSET {k \in Requests \ {i} :
                                    /\ c_pc[k] = "transcribing"
                                    /\ temp_file_path(k) = temp_file_path(i)} :
          c_heard' = [k \in Requests |->
                         IF k = i \/ k \in overtaken THEN i ELSE c_heard[k]]
    /\ c_pc' = [c_pc EXCEPT ![i] = "transcribing"]
    /\ UNCHANGED <<c_req, c_resp>>
    /\ UNCHANGED <<fillerVars, g_pc, g_title, g_user_text, g_ext, g_result, pipeVars, metricVars>>

\* Lines 150-197: the transcription returns the transcript of the audio it
\* read.  A transcript without the mandatory data ends the request with a
\* 400 after the temporary file is removed; else the analysis goes on.
TranscriptionReturns(i) ==
    /\ c_pc[i] = "transcribing"
    /\ IF c_req[c_heard[i]].usable
       THEN /\ c_pc' = [c_pc EXCEPT ![i] = "analysing"]
            /\ UNCHANGED <<tmp_files, c_resp>>
       ELSE /\ c_pc' = [c_pc EXCEPT ![i] = "done"]
            /\ tmp_files' = RemoveTempFile(i)
            /\ c_resp' = [c_resp EXCEPT ![i] = [status |-> 400, heard |-> c_heard[i]]]
    /\ UNCHANGED <<c_req, c_heard, openai_client>>
    /\ UNCHANGED <<fillerVars, g_pc, g_title, g_user_text, g_ext, g_result, pipeVars, metricVars>>

\* Lines 197-343: the later external calls return, the temporary file is
\* removed when it exists, and the response is returned.
Finish(i) ==
    /\ c_pc[i] = "analysing"
    /\ c_pc' = [c_pc EXCEPT ![i] = "done"]
    /\ tmp_files' = RemoveTempFile(i)
    /\ c_resp' = [c_resp EXCEPT ![i] = [status |-> 200, heard |-> c_heard[i]]]
    /\ UNCHANGED <<c_req, c_heard, openai_client>>
    /\ UNCHANGED <<fillerVars, g_pc, g_title, g_user_text, g_ext, g_result, pipeVars, metricVars>>

NextConcurrent ==
    \E i \in Requests : Save(i) \/ TranscriptionReturns(i) \/ Finish(i)

SpecConcurrent == InitConcurrent /\ [][NextConcurrent]_vars

\* The response of request i when it runs alone.
AloneResponse(i) ==
    [status |-> IF c_req[i].usable THEN 200 ELSE 400, heard |-> i]

\* Request i has written its temporary file and has not removed it yet.
HoldsTempFile(i) == c_pc[i] \in {"transcribing", "analysing"}

\* C11: requests in flight together share no mutable state: each returns
\* the response it returns when it runs alone, and the temporary file of a
\* request in flight is neither overwritten nor deleted by another request.
C11_RequestsIsolated ==
    \A i \in Requests :
        /\ c_pc[i] = "done" => c_resp[i] = AloneResponse(i)
        /\ HoldsTempFile(i) => tmp_files[temp_file_path(i)] = i

(***************************************************************************)
(* The metric functions called on their own, with inputs of the caller's.   *)
(***************************************************************************)

\* Longest list of segments handed to a metric function.
MaxSegments == 3

\* Segment times, in hundredths of a second.
SegmentTimes == {0, 50, 60, 111}

SegmentLists ==
    UNION {[1..n -> [start : SegmentTimes, end : SegmentTimes]] : n \in 0..MaxSegments}

\* segments: None or a list.
OptSegments == {None} \cup {Some(s) : s \in SegmentLists}

\* The top-level duration of a transcription object: absent, or a number.
RawDurations == {None, Some(0), Some(-50), Some(85), Some(200)}

DurationInputs ==
    [fn : {"transcribe_audio_file"}, duration : RawDurations, segments : OptSegments]

\* No result yet.
NoOutput == [fn |-> "none"]

\* transcribe_audio_file on a transcription object with these fields.
DurationCall ==
    /\ m_pc = "start"
    /\ m_in.fn = "transcribe_audio_file"
    /\ m_out' = [fn |-> m_in.fn,
                 v |-> transcribe_audio_file(
                           [text |-> <<>>, duration |-> m_in.duration,
                            segments |-> m_in.segments, language |-> None])]
    /\ m_pc' = "done"
    /\ UNCHANGED <<m_in, fillerVars, gptVars, pipeVars, concVars>>


(***************************************************************************)
(* Claims about the metric functions                                        *)
(***************************************************************************)

\* transcribe_audio_file returned.
DurationResolved == m_pc = "done" /\ m_out.fn = "transcribe_audio_file"

\* The segments of the call, an absent list taken as the empty one.
GivenSegments == IF m_in.segments.isNone THEN <<>> ELSE m_in.segments.v

\* Sum of end - start over the segments.
RECURSIVE SegmentSum(_)
SegmentSum(s) == IF s = <<>> THEN 0 ELSE (Head(s).end - Head(s).start) + SegmentSum(Tail(s))

\* The top-level duration, 0 when it is absent.
GivenDuration == IF m_in.duration.isNone THEN 0 ELSE m_in.duration.v

\* C12 as stated: the duration is the first strictly positive value of
\* (1) the sum of the segment lengths, (2) the top-level duration, (3) the
\* end of the last segment; a positive segment sum wins over a positive
\* top-level duration.
C12_SegmentSumFirst ==
    DurationResolved =>
        m_out.v.duration_seconds =
            IF SegmentSum(GivenSegments) > 0 THEN SegmentSum(GivenSegments)
            ELSE IF GivenDuration > 0 THEN GivenDuration
            ELSE IF GivenSegments # <<>> /\ GivenSegments[Len(GivenSegments)].end > 0
            THEN GivenSegments[Len(GivenSegments)].end
            ELSE 0

\* C12, amended: the duration is the top-level duration when that is
\* strictly positive; else the sum of the segment lengths (a negative length
\* counted as 0) when that is strictly positive; else the largest segment
\* end, whatever its sign; and 0 when there are no segments either.
C12_TopLevelDurationFirst ==
    DurationResolved =>
        /\ GivenDuration > 0 => m_out.v.duration_seconds = GivenDuration
        /\ (GivenDuration <= 0 /\ SpeakingTotal(GivenSegments) > 0)
               => m_out.v.duration_seconds = SpeakingTotal(GivenSegments)
        /\ (GivenDuration <= 0 /\ SpeakingTotal(GivenSegments) <= 0 /\ GivenSegments # <<>>)
               => /\ \E i \in 1..Len(GivenSegments) :
                        GivenSegments[i].end = m_out.v.duration_seconds
                  /\ \A i \in 1..Len(GivenSegments) :
                        GivenSegments[i].end <= m_out.v.duration_seconds
        /\ (GivenDuration <= 0 /\ GivenSegments = <<>>) => m_out.v.duration_seconds = 0

\* Both a positive top-level duration and a different positive segment sum
\* were given, and the top-level duration was returned.
C12_Witness ==
    /\ DurationResolved
    /\ GivenDuration > 0
    /\ SegmentSum(GivenSegments) > 0
    /\ SegmentSum(GivenSegments) # GivenDuration
    /\ m_out.v.duration_seconds = GivenDuration

(***************************************************************************)
(* remove_filler_words called twice, with one span list in two orders.      *)
(***************************************************************************)

\* The span that covers tokens i..j of the text Concat(ts).
CoverSpan(ts, i, j) ==
    [word |-> Concat(SubSeq(ts, i, j)),
     position |-> Len(Concat(SubSeq(ts, 1, i - 1))),
     length |-> Len(Concat(SubSeq(ts, i, j)))]

\* Lists of spans that each cover a run of whole tokens of the text.
CoverLists(ts) ==
    LET runs == {r \in (1..Len(ts)) \X (1..Len(ts)) : r[1] <= r[2]}
    IN  UNION {[1..n -> {CoverSpan(ts, r[1], r[2]) : r \in runs}] : n \in 0..MaxSpans}

\* The list s with its entries in the order p, a permutation of its indices.
Reordered(s, p) == [k \in 1..Len(s) |-> s[p[k]]]

InitPermute ==
    \E ts \in TokenSeqs :
        /\ OthersIdle
        /\ ConcIdle
        /\ openai_client = "none"
        /\ m_pc = "start"
        /\ \E s \in CoverLists(ts) : \E p \in Permutations(1..Len(s)) :
               m_in = [fn |-> "remove_filler_words", text |-> Concat(ts),
                       filler_positions |-> s, permuted |-> Reordered(s, p)]
        /\ m_out = NoOutput

\* remove_filler_words on the list and on the reordered list.
RemoveBothOrders ==
    /\ m_pc = "start"
    /\ m_in.fn = "remove_filler_words"
    /\ m_out' = [fn |-> m_in.fn,
                 v |-> remove_filler_words(m_in.text, m_in.filler_positions),
                 permuted_v |-> remove_filler_words(m_in.text, m_in.permuted)]
    /\ m_pc' = "done"
    /\ UNCHANGED <<m_in, fillerVars, gptVars, pipeVars, concVars>>

NextPermute ==
    \/ RemoveBothOrders

SpecPermute == InitPermute /\ [][NextPermute]_vars

\* C13: remove_filler_words is order-independent: the span list and every
\* permutation of it yield the same output string.
C13_OrderIndependent ==
    (m_pc = "done" /\ m_out.fn = "remove_filler_words") => m_out.v = m_out.permuted_v

\* C14: for every text and every span list detect_filler_words_with_gpt can
\* return for it, the output of remove_filler_words is never longer than the
\* input text.
C14_OutputNotLonger ==
    f_pc = "removed" => Len(cleaned_text) <= Len(f_text)

(***************************************************************************)
(* _regex_hesitation_fillers called on a text of hesitation sounds.         *)
(***************************************************************************)

\* Largest number of pieces of a text handed to the deterministic pass.
MaxSounds == 3

\* The pieces of those texts: the six sounds of the pattern, one of them
\* with a capital and a repeated last letter, a word that is no sound, a
\* space and a comma.
SoundTokens ==
    {<<"u", "m">>, <<"U", "m", "m">>, <<"u", "h">>, <<"e", "r">>, <<"e", "r", "m">>,
     <<"a", "h">>, <<"h", "m", "m">>, <<"x">>, <<" ">>, <<",">>}

SoundTexts == {Concat(ts) : ts \in UNION {[1..n -> SoundTokens] : n \in 0..MaxSounds}}

RegexInputs == [fn : {"_regex_hesitation_fillers"}, text : SoundTexts]

RegexCall ==
    /\ m_pc = "start"
    /\ m_in.fn = "_regex_hesitation_fillers"
    /\ m_out' = [fn |-> m_in.fn, v |-> _regex_hesitation_fillers(m_in.text)]
    /\ m_pc' = "done"
    /\ UNCHANGED <<m_in, fillerVars, gptVars, pipeVars, concVars>>

\* The deterministic pass returned.
RegexDone == m_pc = "done" /\ m_out.fn = "_regex_hesitation_fillers"

\* The hesitation sounds: um, uh, er, erm, ah, hmm.
SoundStems ==
    {<<"u", "m">>, <<"u", "h">>, <<"e", "r">>, <<"e", "r", "m">>, <<"a", "h">>,
     <<"h", "m", "m">>}

\* w is a sound with its last letter repeated any number of times.
IsSound(w) ==
    \E stem \in SoundStems :
        /\ Len(w) >= Len(stem)
        /\ \A k \in 1..Len(w) :
               w[k] = IF k <= Len(stem) THEN stem[k] ELSE stem[Len(stem)]

\* The word-bounded occurrences of a sound in t, as <<offset, length>>:
\* whole words of t that are a sound in any letter case.
Occurrences(t) ==
    {o \in (0..Len(t)) \X (1..Len(t)) :
        /\ o[1] + o[2] <= Len(t)
        /\ o[1] = 0 \/ ~IsWordChar(t[o[1]])
        /\ o[1] + o[2] = Len(t) \/ ~IsWordChar(t[o[1] + o[2] + 1])
        /\ \A k \in (o[1] + 1)..(o[1] + o[2]) : IsWordChar(t[k])
        /\ IsSound(Lower(SubSeq(t, o[1] + 1, o[1] + o[2])))}

\* C15: the deterministic pass returns one span per word-bounded occurrence
\* of a hesitation sound (repeated last letter, any letter case): N
\* occurrences give exactly N spans, each selecting its token in the text,
\* in ascending order; no occurrence gives the empty list.
C15_RegexPassExact ==
    RegexDone =>
        /\ Len(m_out.v) = Cardinality(Occurrences(m_in.text))
        /\ {<<m_out.v[k].position, m_out.v[k].length>> : k \in 1..Len(m_out.v)}
               = Occurrences(m_in.text)
        /\ \A k \in 1..Len(m_out.v) :
               m_out.v[k].word = SubSeq(m_in.text, m_out.v[k].position + 1,
                                        m_out.v[k].position + m_out.v[k].length)
        /\ \A j, k \in 1..Len(m_out.v) :
               j < k => m_out.v[j].position + m_out.v[j].length <= m_out.v[k].position

\* Two occurrences, one of them with a capital and a repeated letter.
C15_Witness ==
    /\ RegexDone
    /\ Len(m_out.v) = 2
    /\ \E k \in 1..2 : m_out.v[k].word = <<"U", "m", "m">>

(***************************************************************************)
(* analyze_pauses_and_hesitations called on a text and a segment list.      *)
(***************************************************************************)

\* The texts of those calls: empty, without a sound, with one and with two.
PauseTexts ==
    {<<>>, <<"x">>, <<"u", "m">>, <<"x", ",", " ", "U", "m", "m", " ", "u", "m">>}

PauseInputs ==
    [fn : {"analyze_pauses_and_hesitations"}, text : PauseTexts, segments : OptSegments]

PauseCall ==
    /\ m_pc = "start"
    /\ m_in.fn = "analyze_pauses_and_hesitations"
    /\ \E r \in analyze_pauses_and_hesitations(m_in.text, m_in.segments) :
           m_out' = [fn |-> m_in.fn, v |-> r]
    /\ m_pc' = "done"
    /\ UNCHANGED <<m_in, fillerVars, gptVars, pipeVars, concVars>>

\* analyze_pauses_and_hesitations returned.
PausesAnalysed == m_pc = "done" /\ m_out.fn = "analyze_pauses_and_hesitations"

\* The gaps next.start - current.end of the adjacent pairs, in order.
Gaps == [i \in 1..(Len(GivenSegments) - 1) |->
            GivenSegments[i + 1].start - GivenSegments[i].end]

ReachesThreshold(gap) == gap >= pause_threshold

\* The gaps that are to be retained.
RetainedGaps == SelectSeq(Gaps, ReachesThreshold)

\* The retained gaps are those of at least the threshold; total_pauses is
\* their number and total_pause_time their sum.
C16_GapsCountAndSum ==
    /\ m_out.v.pause_durations = RetainedGaps
    /\ m_out.v.total_pauses = Len(RetainedGaps)
    /\ m_out.v.total_pause_time = SumSeq(RetainedGaps)

\* C16 as stated: for at least two segments a gap is retained iff it is at
\* least pause_threshold, total_pauses is the number of retained gaps,
\* total_pause_time their sum and average_pause_duration their mean, 0.0
\* when none is retained.
C16_AverageIsMean ==
    (PausesAnalysed /\ Len(GivenSegments) >= 2) =>
        /\ C16_GapsCountAndSum
        /\ m_out.v.average_pause_duration * Len(RetainedGaps) = SumSeq(RetainedGaps)

\* C16 amended: as above, with average_pause_duration the mean rounded to
\* two decimal places (at most half a hundredth away from the mean).
C16_AverageIsRoundedMean ==
    (PausesAnalysed /\ Len(GivenSegments) >= 2) =>
        /\ C16_GapsCountAndSum
        /\ IF RetainedGaps = <<>>
           THEN m_out.v.average_pause_duration = 0
           ELSE LET diff == m_out.v.average_pause_duration * Len(RetainedGaps)
                                - SumSeq(RetainedGaps)
                IN  2 * diff <= Len(RetainedGaps) /\ -2 * diff <= Len(RetainedGaps)

\* Three segments: a gap equal to the threshold is retained, a smaller one
\* is not.
C16_Witness ==
    /\ PausesAnalysed
    /\ Len(GivenSegments) = 3
    /\ \E i \in 1..2 : Gaps[i] = pause_threshold
    /\ \E i \in 1..2 : Gaps[i] < pause_threshold
    /\ m_out.v.pause_durations = <<pause_threshold>>

\* C17: with segments absent, empty or of a single element the call returns
\* (it does not raise) zero pauses, zero pause time, a zero average and an
\* empty pause_durations list, while total_hesitations and hesitation_words
\* are still computed from the text.
C17_NoSegmentsNoPauses ==
    (m_pc = "start" /\ m_in.fn = "analyze_pauses_and_hesitations"
        /\ Len(GivenSegments) < 2) =>
        /\ analyze_pauses_and_hesitations(m_in.text, m_in.segments) # {}
        /\ \A r \in analyze_pauses_and_hesitations(m_in.text, m_in.segments) :
               /\ r.total_pauses = 0
               /\ r.total_pause_time = 0
               /\ r.average_pause_duration = 0
               /\ r.pause_durations = <<>>
               /\ r.total_hesitations = Cardinality(Occurrences(m_in.text))
               /\ Len(r.hesitation_words) = r.total_hesitations
               /\ \A k \in 1..Len(r.hesitation_words) : IsSound(Lower(r.hesitation_words[k]))

\* A text with two hesitation sounds analysed without segments.
C17_Witness ==
    /\ PausesAnalysed
    /\ m_in.segments.isNone
    /\ m_out.v.total_pauses = 0
    /\ m_out.v.total_hesitations = 2

(***************************************************************************)
(* calculate_wpm called on a text and a duration.                           *)
(***************************************************************************)

\* Durations handed to calculate_wpm, in hundredths of a second.
WpmDurations == {-50, 0, 7, 85, 200}

WpmInputs == [fn : {"calculate_wpm"}, text : SoundTexts, duration_seconds : WpmDurations]

WpmCall ==
    /\ m_pc = "start"
    /\ m_in.fn = "calculate_wpm"
    /\ \E r \in calculate_wpm(m_in.text, m_in.duration_seconds) :
           m_out' = [fn |-> m_in.fn, v |-> r]
    /\ m_pc' = "done"
    /\ UNCHANGED <<m_in, fillerVars, gptVars, pipeVars, concVars>>

\* calculate_wpm returned.
WpmDone == m_pc = "done" /\ m_out.fn = "calculate_wpm"

\* The word tokens of t: the offsets where a run of word characters starts.
WordTokens(t) ==
    {i \in 1..Len(t) : IsWordChar(t[i]) /\ (i = 1 \/ ~IsWordChar(t[i - 1]))}

\* word_count / duration_seconds * 60 times the duration, with wpm in
\* hundredths and the duration in hundredths of a second.
ExactWpmTimesDuration == Cardinality(WordTokens(m_in.text)) * 600000

\* C18 as stated: a duration <= 0 gives wpm 0.0, a duration > 0 gives
\* wpm = word_count / duration_seconds * 60, word_count the number of word
\* tokens of the text.
C18_WpmExact ==
    WpmDone =>
        /\ m_out.v.word_count = Cardinality(WordTokens(m_in.text))
        /\ m_in.duration_seconds <= 0 => m_out.v.wpm = 0
        /\ m_in.duration_seconds > 0 =>
               m_out.v.wpm * m_in.duration_seconds = ExactWpmTimesDuration

\* C18 amended: as above, with wpm rounded to two decimal places (at most
\* half a hundredth away from word_count / duration_seconds * 60).
C18_WpmRounded ==
    WpmDone =>
        /\ m_out.v.word_count = Cardinality(WordTokens(m_in.text))
        /\ m_in.duration_seconds <= 0 => m_out.v.wpm = 0
        /\ m_in.duration_seconds > 0 =>
               LET diff == m_out.v.wpm * m_in.duration_seconds - ExactWpmTimesDuration
               IN  2 * diff <= m_in.duration_seconds /\ -2 * diff <= m_in.duration_seconds

\* Words spoken in a positive duration that does not divide evenly.
C18_Witness ==
    /\ WpmDone
    /\ m_in.duration_seconds > 0
    /\ m_out.v.word_count = 2
    /\ m_out.v.wpm * m_in.duration_seconds # ExactWpmTimesDuration

(***************************************************************************)
(* calculate_fluency_score called on a duration, a pause time and counts.   *)
(***************************************************************************)

\* Largest hesitation count and word count of those calls.
MaxCount == 3

\* Durations and pause times, in hundredths of a second.
FluencyDurations == {0, 85, 200}

FluencyPauseTimes == {0, 50, 161, 300}

FluencyInputs ==
    [fn : {"calculate_fluency_score"}, total_duration : FluencyDurations,
     total_pause_time : FluencyPauseTimes, hesitation_count : 0..MaxCount,
     word_count : 0..MaxCount]

FluencyCall ==
    /\ m_pc = "start"
    /\ m_in.fn = "calculate_fluency_score"
    /\ \E r \in calculate_fluency_score(m_in.total_duration, m_in.total_pause_time,
                                        m_in.hesitation_count, m_in.word_count) :
           m_out' = [fn |-> m_in.fn, v |-> r]
    /\ m_pc' = "done"
    /\ UNCHANGED <<m_in, fillerVars, gptVars, pipeVars, concVars>>

\* calculate_fluency_score returned.
FluencyDone == m_pc = "done" /\ m_out.fn = "calculate_fluency_score"

\* C19: with total_duration = 0 the result is fluency_score 0.0, pause_ratio
\* 0.0 and hesitation_rate 0.0 whatever the pause time and the counts; with
\* word_count = 0 and a positive duration hesitation_rate is 0.0.
C19_ZeroDurationZeroBundle ==
    FluencyDone =>
        /\ m_in.total_duration = 0 =>
               m_out.v = [fluency_score |-> 0, pause_ratio |-> 0, hesitation_rate |-> 0]
        /\ (m_in.word_count = 0 /\ m_in.total_duration > 0) =>
               m_out.v.hesitation_rate = 0

\* A zero duration with pause time and hesitations.
C19_Witness ==
    /\ FluencyDone
    /\ m_in.total_duration = 0
    /\ m_in.total_pause_time > 0
    /\ m_in.hesitation_count > 0
    /\ m_out.v.fluency_score = 0

(***************************************************************************)
(* calculate_confidence_score called on the metrics of one answer.          *)
(***************************************************************************)

\* Speaking rates in hundredths of a word per minute: negative, zero, on
\* and between the breakpoints of the rate score, and far above them.
ConfidenceWpms ==
    {-1000, 0, 5000, 6000, 8000, 10000, 10001, 11500, 13000, 14000, 15000, 16500, 18500, 18700,
     20000, 21500, 100000}

\* Pause ratios in thousandths and hesitation rates in hundredths.
ConfidencePauseRatios == {-100, 0, 50, 75, 100, 101, 180, 280, 1500}

ConfidenceHesitationRates == {-100, 0, 150, 225, 600, 1000, 30000}

ConfidenceFluencies == {0, 5050, 10000}

ConfidenceInputs ==
    [fn : {"calculate_confidence_score"}, wpm : ConfidenceWpms,
     filler_count : 0..MaxCount, word_count : 0..MaxCount,
     pause_ratio : ConfidencePauseRatios, hesitation_rate : ConfidenceHesitationRates,
     fluency_score : ConfidenceFluencies]

ConfidenceCall ==
    /\ m_pc = "start"
    /\ m_in.fn = "calculate_confidence_score"
    /\ \E r \in calculate_confidence_score(m_in.wpm, m_in.filler_count, m_in.word_count,
                                           m_in.pause_ratio, m_in.hesitation_rate,
                                           m_in.fluency_score,
                                           [isList |-> TRUE, items |-> <<>>]) :
           m_out' = [fn |-> m_in.fn, v |-> r]
    /\ m_pc' = "done"
    /\ UNCHANGED <<m_in, fillerVars, gptVars, pipeVars, concVars>>

\* calculate_confidence_score returned.
ConfidenceDone == m_pc = "done" /\ m_out.fn = "calculate_confidence_score"

\* A score in hundredths that lies within [0, 100].
InScoreRange(score) == 0 <= score /\ score <= 10000

\* C20: for every wpm, filler_count >= 0, word_count >= 0, pause_ratio,
\* hesitation_rate and fluency_score in [0, 100], the rate, filler, pause,
\* hesitation and confidence scores all lie within [0, 100]; without words
\* the filler density counts as 0.
C20_ScoresInRange ==
    ConfidenceDone =>
        /\ InScoreRange(m_out.v.wpm_score)
        /\ InScoreRange(m_out.v.filler_score)
        /\ InScoreRange(m_out.v.pause_score)
        /\ InScoreRange(m_out.v.hesitation_score)
        /\ InScoreRange(m_out.v.confidence_score)
        /\ m_in.word_count = 0 => m_out.v.filler_score = 10000

\* A negative rate and fillers without words: the rate score is at its
\* floor and the filler score at its ceiling.
C20_Witness ==
    /\ ConfidenceDone
    /\ m_in.wpm < 0
    /\ m_in.word_count = 0
    /\ m_in.filler_count > 0
    /\ m_out.v.wpm_score = 0
    /\ m_out.v.filler_score = 10000

\* Every metric of the call is in its optimal band and the fluency score
\* is 100.
AllOptimal ==
    /\ 13000 <= m_in.wpm /\ m_in.wpm <= 15000
    /\ m_in.word_count = 0 \/ 100 * m_in.filler_count <= m_in.word_count
    /\ m_in.pause_ratio <= 50
    /\ m_in.hesitation_rate <= 150
    /\ m_in.fluency_score = 10000

CurvePieces ==
    {[lo |-> 6000, hi |-> 10000, from |-> 0, to |-> 50],
     [lo |-> 10000, hi |-> 11500, from |-> 50, to |-> 70],
     [lo |-> 11500, hi |-> 13000, from |-> 70, to |-> 100],
     [lo |-> 13000, hi |-> 15000, from |-> 100, to |-> 100],
     [lo |-> 15000, hi |-> 16500, from |-> 100, to |-> 70],
     [lo |-> 16500, hi |-> 18500, from |-> 70, to |-> 30],
     [lo |-> 18500, hi |-> 21500, from |-> 30, to |-> 0]}

\* score (in hundredths) is the value of the piece at wpm, rounded to two
\* decimal places.
OnPiece(piece, wpm, score) ==
    LET width == piece.hi - piece.lo
        exact == 100 * (piece.from * width + (piece.to - piece.from) * (wpm - piece.lo))
        diff == score * width - exact
    IN  2 * diff <= width /\ -2 * diff <= width

\* C22: wpm_score follows the tabulated piecewise-linear curve for every
\* wpm (rounded to two decimal places as every score is): it is 0 for every
\* wpm <= 60 and every wpm >= 215, and at each breakpoint the pieces on both
\* sides give the returned value, so the curve has no jump.
C22_WpmScoreOnCurve ==
    ConfidenceDone =>
        /\ (m_in.wpm <= 6000 \/ m_in.wpm >= 21500) => m_out.v.wpm_score = 0
        /\ \A piece \in CurvePieces :
               (piece.lo <= m_in.wpm /\ m_in.wpm <= piece.hi)
                   => OnPiece(piece, m_in.wpm, m_out.v.wpm_score)

\* A breakpoint between two sloped pieces.
C22_Witness ==
    /\ ConfidenceDone
    /\ m_in.wpm = 16500
    /\ m_out.v.wpm_score = 7000

\* 100 times the weighted sum 0.25 wpm_score + 0.25 filler_score + 0.20
\* pause_score + 0.15 hesitation_score + 0.15 fluency_score of the scores
\* of the returned bundle and the fluency score of the call.
WeightedSumOfReturned ==
    25 * m_out.v.wpm_score + 25 * m_out.v.filler_score + 20 * m_out.v.pause_score
        + 15 * m_out.v.hesitation_score + 15 * m_in.fluency_score

\* C23 as stated: confidence_score is the weighted sum, with the weights
\* 0.25, 0.25, 0.20, 0.15, 0.15, of the component scores returned in the
\* same bundle, rounded to two decimal places.
C23_WeightedSumOfReturned ==
    ConfidenceDone =>
        LET diff == 100 * m_out.v.confidence_score - WeightedSumOfReturned
        IN  2 * diff <= 100 /\ -2 * diff <= 100

\* C23 amended: confidence_score is the weighted sum of the component
\* scores before their rounding, rounded to two decimal places; from the
\* weighted sum of the returned, rounded scores it is less than 0.00925
\* away (half a hundredth for its own rounding and 0.85 of half a hundredth
\* for the four rounded components).
C23_WeightedSumBeforeRounding ==
    ConfidenceDone =>
        LET diff == 100 * m_out.v.confidence_score - WeightedSumOfReturned
        IN  /\ 2 * diff <= 185 /\ -2 * diff <= 185
            /\ m_out.v.confidence_score
                   \in RoundSet(ConfidenceScore(m_in.wpm, m_in.filler_count, m_in.word_count,
                                                m_in.pause_ratio, m_in.hesitation_rate,
                                                m_in.fluency_score),
                                240 * Max(m_in.word_count, 1))

\* A bundle whose confidence score is not the rounded weighted sum of its
\* own component scores.
C23_Witness ==
    /\ ConfidenceDone
    /\ m_in.wpm = 10001
    /\ m_in.pause_ratio = 101
    /\ m_out.v.wpm_score = 5001
    /\ m_out.v.pause_score = 4956
    /\ 100 * m_out.v.confidence_score - WeightedSumOfReturned > 50

\* The composite score of the call before its rounding, as a multiple of
\* 1 / CompositeUnit.
Composite ==
    ConfidenceScore(m_in.wpm, m_in.filler_count, m_in.word_count, m_in.pause_ratio,
                    m_in.hesitation_rate, m_in.fluency_score)

CompositeUnit == 24000 * Max(m_in.word_count, 1)

Ratings == {"Excellent", "Good", "Moderate", "Low", "Very Low"}

\* C24: exactly one rating is assigned from the composite score, with
\* inclusive lower thresholds: Excellent from 90, Good from 75 and below 90,
\* Moderate from 58 and below 75, Low from 42 and below 58, Very Low below
\* 42.
C24_RatingThresholds ==
    ConfidenceDone =>
        /\ m_out.v.overall_rating \in Ratings
        /\ m_out.v.overall_rating = "Excellent" <=> Composite >= 90 * CompositeUnit
        /\ m_out.v.overall_rating = "Good"
               <=> (Composite >= 75 * CompositeUnit /\ Composite < 90 * CompositeUnit)
        /\ m_out.v.overall_rating = "Moderate"
               <=> (Composite >= 58 * CompositeUnit /\ Composite < 75 * CompositeUnit)
        /\ m_out.v.overall_rating = "Low"
               <=> (Composite >= 42 * CompositeUnit /\ Composite < 58 * CompositeUnit)
        /\ m_out.v.overall_rating = "Very Low" <=> Composite < 42 * CompositeUnit

\* A composite score of exactly 42, rated Low.
C24_Witness ==
    /\ ConfidenceDone
    /\ Composite = 42 * CompositeUnit
    /\ m_out.v.overall_rating = "Low"

\* s is fully normalized: no two whitespace characters in a row, no
\* whitespace before a punctuation character, exactly one space after a
\* punctuation character that is followed by further text, no whitespace
\* at either end.
FullyNormalized(s) ==
    /\ \A i \in 1..(Len(s) - 1) :
           /\ ~(IsSpace(s[i]) /\ IsSpace(s[i + 1]))
           /\ ~(IsSpace(s[i]) /\ IsPunct(s[i + 1]))
           /\ IsPunct(s[i]) => s[i + 1] = " "
    /\ s # <<>> => (~IsSpace(s[1]) /\ ~IsSpace(s[Len(s)]))

\* C25: for every text and every span list the output of
\* remove_filler_words is fully normalized.
C25_OutputNormalized ==
    f_pc = "removed" => FullyNormalized(cleaned_text)

\* The step on which the relevance check returns "off-topic" and the
\* request is answered.
OffTopicStep ==
    /\ p_pc = "relevance"
    /\ p_pc' = "done"
    /\ p_loc'.off_topic
    /\ p_resp'.status = 200

\* The response of the next state carries the upstream data of this state.
UpstreamReturned ==
    LET body == p_resp'.body.v
    IN  /\ body.text = p_loc.text
        /\ body.filler_words = p_loc.filler_words
        /\ body.filler_count = Len(p_loc.filler_words)
        /\ body.cleaned_text = p_loc.cleaned_text
        /\ body.word_count = p_loc.wpm_data.word_count
        /\ body.duration_seconds = p_loc.wpm_data.duration_seconds
        /\ body.wpm = p_loc.wpm_data.wpm
        /\ body.total_pauses = p_loc.pause_data.total_pauses
        /\ body.total_hesitations = p_loc.pause_data.total_hesitations
        /\ body.pause_durations = p_loc.pause_data.pause_durations
        /\ body.average_pause_duration = p_loc.pause_data.average_pause_duration
        /\ body.total_pause_time = p_loc.pause_data.total_pause_time
        /\ body.hesitation_words = p_loc.pause_data.hesitation_words
        /\ body.fluency_score = p_loc.fluency_data.fluency_score
        /\ body.pause_ratio = p_loc.fluency_data.pause_ratio
        /\ body.hesitation_rate = p_loc.fluency_data.hesitation_rate

\* C26: the relevance gate never revises upstream data: on the off-topic
\* path the metrics (word count, duration, wpm, pause statistics,
\* hesitation words, fluency score, pause ratio, hesitation rate), the
\* filler span list, the filler count and the cleaned text are returned as
\* they were computed before the gate; only the score bundle and the
\* improved text are rebound.
C26_UpstreamUnchanged ==
    [][OffTopicStep =>
          /\ UpstreamReturned
          /\ p_loc'.cleaned_text = p_loc.cleaned_text
          /\ p_loc'.filler_words = p_loc.filler_words
          /\ p_loc'.wpm_data = p_loc.wpm_data
          /\ p_loc'.pause_data = p_loc.pause_data
          /\ p_loc'.fluency_data = p_loc.fluency_data]_vars

\* An off-topic response with a filler span, a cleaned text, a pause and
\* scorer scores that the penalty changed.
C26_Witness ==
    /\ OffTopicDone
    /\ p_resp.status = 200
    /\ p_resp.body.v.filler_count > 0
    /\ p_resp.body.v.cleaned_text # <<>>
    /\ p_resp.body.v.total_pauses > 0
    /\ p_resp.body.v.word_count > 0

\* The step on which the relevance check of the request returns.
RelevanceReturns == p_ext'.relevance # p_ext.relevance

\* calculate_confidence_score has returned its bundle: the recommendation
\* call inside it has been answered.
ScorerReturned == p_ext.recs.shape # "none"

\* The score bundle of the response of the next state is the bundle the
\* scorer produced.
ScorerBundleReturned ==
    LET body == p_resp'.body.v
    IN  /\ body.confidence_score = p_loc.confidence_data.confidence_score
        /\ body.wpm_score = p_loc.confidence_data.wpm_score
        /\ body.filler_score = p_loc.confidence_data.filler_score
        /\ body.pause_score = p_loc.confidence_data.pause_score
        /\ body.hesitation_score = p_loc.confidence_data.hesitation_score
        /\ body.overall_rating = p_loc.confidence_data.overall_rating
        /\ body.recommendations = p_loc.confidence_data.recommendations

\* C27: in every request the relevance check is invoked at most once, only
\* with a title that is not blank, and only after calculate_confidence_score
\* has produced its bundle; when the check is not invoked or returns
\* "relevant", the score bundle of the response is the one the scorer
\* produced.
C27_RelevanceGateLast ==
    [][/\ RelevanceReturns =>
              /\ p_ext.relevance.call = "none"
              /\ ~p_in.title.isNone
              /\ \E i \in 1..Len(p_in.title.v) : ~IsSpace(p_in.title.v[i])
              /\ ScorerReturned
       /\ (p_pc = "relevance" /\ p_pc' = "improving") =>
              p_loc'.confidence_data = p_loc.confidence_data
       /\ (p_pc = "improving" /\ p_resp'.status = 200) => ScorerBundleReturned
       /\ ScorerReturned => p_ext'.recs = p_ext.recs]_vars

\* A response after a relevance check that answered YES.
C27_Witness ==
    /\ p_pc = "done"
    /\ p_resp.status = 200
    /\ p_ext.relevance.call = "ok"
    /\ p_ext.relevance.content = Some(YES)
    /\ ~p_loc.off_topic
    /\ p_resp.body.v.confidence_score > 0

\* C28: for a positive duration (pause time and counts not negative) the
\* fluency score lies within [20, 100]: the pause penalty is at most 50 and
\* the hesitation penalty at most 30, so the floor at 0 never binds; with
\* the zero-duration case the score is within [0, 100] and never strictly
\* between 0 and 20.
C28_FluencyFloorTwenty ==
    FluencyDone =>
        /\ m_in.total_duration > 0 =>
               (2000 <= m_out.v.fluency_score /\ m_out.v.fluency_score <= 10000)
        /\ 0 <= m_out.v.fluency_score /\ m_out.v.fluency_score <= 10000
        /\ ~(0 < m_out.v.fluency_score /\ m_out.v.fluency_score < 2000)

\* Both penalties at their caps: more pause time than duration and one
\* hesitation per word.
C28_Witness ==
    /\ FluencyDone
    /\ m_in.total_duration > 0
    /\ m_in.total_pause_time > m_in.total_duration
    /\ m_in.word_count > 0
    /\ m_in.hesitation_count = m_in.word_count
    /\ m_out.v.fluency_score = 2000

\* C29: in every score bundle the endpoint returns, on the on-topic and on
\* the off-topic path, overall_rating is the rating the thresholds 90, 75,
\* 58 and 42 assign to the confidence_score of that same bundle.
C29_RatingMatchesReturnedScore ==
    (p_pc = "done" /\ p_resp.status = 200) =>
        p_resp.body.v.overall_rating = OverallRating(p_resp.body.v.confidence_score, 100)

\* new is half of old, rounded to two decimal places (both in hundredths).
HalfRounded(old, new) == 2 * new - old <= 1 /\ old - 2 * new <= 1

\* The scorer's component scores of this state and the ones of the
\* response of the next state, pairwise.
ComponentPairs ==
    {<<p_loc.confidence_data.wpm_score, p_resp'.body.v.wpm_score>>,
     <<p_loc.confidence_data.filler_score, p_resp'.body.v.filler_score>>,
     <<p_loc.confidence_data.pause_score, p_resp'.body.v.pause_score>>,
     <<p_loc.confidence_data.hesitation_score, p_resp'.body.v.hesitation_score>>}

\* C30 as stated: on the off-topic path every returned component score is
\* exactly half of the original (the ceiling of 50 never changes a value,
\* the originals being at most 100), and the confidence ceiling of 40
\* changes the value exactly when the original exceeds 80.
C30_ExactlyHalf ==
    [][OffTopicStep =>
          /\ \A pair \in ComponentPairs : pair[1] <= 10000 /\ 2 * pair[2] = pair[1]
          /\ IF p_loc.confidence_data.confidence_score > 8000
             THEN p_resp'.body.v.confidence_score = 4000
             ELSE HalfRounded(p_loc.confidence_data.confidence_score,
                              p_resp'.body.v.confidence_score)]_vars

\* C30 amended: every returned component score is half of the original
\* rounded to two decimal places, never the ceiling in place of a larger
\* half; the confidence score is 40 when the original exceeds 80 and half
\* of it, rounded, otherwise.
C30_HalfRounded ==
    [][OffTopicStep =>
          /\ \A pair \in ComponentPairs : pair[1] <= 10000 /\ HalfRounded(pair[1], pair[2])
          /\ IF p_loc.confidence_data.confidence_score > 8000
             THEN p_resp'.body.v.confidence_score = 4000
             ELSE HalfRounded(p_loc.confidence_data.confidence_score,
                              p_resp'.body.v.confidence_score)]_vars

\* An off-topic response below the confidence ceiling with a component that
\* is half of a score of 100 and one that is half of a score with an odd
\* last digit.
C30_Witness ==
    /\ OffTopicDone
    /\ p_resp.status = 200
    /\ p_resp.body.v.confidence_score < 4000
    /\ p_resp.body.v.pause_score = 5000
    /\ p_resp.body.v.wpm_score = 662

(***************************************************************************)
(* The metric functions, each called once on one input.                     *)
(***************************************************************************)

MetricInputs ==
    DurationInputs \cup RegexInputs \cup PauseInputs \cup WpmInputs
        \cup FluencyInputs \cup ConfidenceInputs

InitMetrics ==
    /\ OthersIdle
    /\ ConcIdle
    /\ openai_client = "none"
    /\ m_pc = "start"
    /\ m_in \in MetricInputs
    /\ m_out = NoOutput

NextMetrics ==
    \/ DurationCall
    \/ RegexCall
    \/ PauseCall
    \/ WpmCall
    \/ FluencyCall
    \/ ConfidenceCall

SpecMetrics == InitMetrics /\ [][NextMetrics]_vars

====
